---- MODULE Spec2Model ----
(***************************************************************************)
(* Model of the hermes-go agent core: Agent.Init, the blocking turn loop   *)
(* Agent.Run and the streaming turn loop Agent.RunStream, together with    *)
(* the tool registry they dispatch through.                                *)
(*                                                                         *)
(* Text (a Go string) is a sequence of string tokens, so that string       *)
(* concatenation is \o and the empty string is <<>>.  Timestamps, usage    *)
(* counters and log output carry no behaviour and are left out.            *)
(***************************************************************************)
EXTENDS Integers, Sequences, FiniteSets, TLC

(***************************************************************************)
(* Bounds of the exploration.                                              *)
(***************************************************************************)
MaxRuns == 2
MaxModelCalls == 2
MaxIds == 2
MaxCalls == 2
MaxEvents == 2
MaxAdds == 1
MaxGets == 2
MaxParams == 2
MaxMethods == 2

(***************************************************************************)
(* Helpers on sequences.                                                   *)
(***************************************************************************)
Min(a, b) == IF a < b THEN a ELSE b

IsPrefix(s, t) == Len(s) <= Len(t) /\ SubSeq(t, 1, Len(s)) = s

RECURSIVE Concat(_)
Concat(ss) == IF ss = <<>> THEN <<>> ELSE Head(ss) \o Concat(Tail(ss))

(***************************************************************************)
(* models.Message, tools.ToolCall, models.ModelResponse.                   *)
(***************************************************************************)
Message(role, content, toolCallID, calls, images, audios) ==
    [Role |-> role, Content |-> content, ToolCallID |-> toolCallID,
     ToolCalls |-> calls, Images |-> images, Audios |-> audios]

ToolCall(id, name, arguments) == [ID |-> id, Name |-> name, Arguments |-> arguments]

ModelResponse(event, data, calls) == [Event |-> event, Data |-> data, ToolCalls |-> calls]

\* The empty ToolCallID of a message that is no tool result, and the
\* provider-assigned id of the n-th ToolCall the model makes.
NoID == <<>>
CallID(n) == <<"call_", n>>

(***************************************************************************)
(* The tools of the agent under test: one hand-written Tool and one        *)
(* toolkit providing a derived tool.  An executor is called with the raw   *)
(* argument payload and returns (result, err).                             *)
(***************************************************************************)
GoodArgs == <<"{\"a\":2,\"b\":2}">>
EmptyArgs == <<"{}">>

Tool(name, description) == [Name |-> name, Description |-> description]

CalculateTool == Tool("calculate", <<"Evaluate a sum">>)
AddTool == Tool("add", <<"Add two numbers.">>)

\* A ToolKit entry of Agent.Tools: a Tool itself, or a kit with Tools().
ToolEntry(t) == [isTool |-> TRUE, kit |-> <<t>>]
KitEntry(ts) == [isTool |-> FALSE, kit |-> ts]

AgentTools == <<ToolEntry(CalculateTool), KitEntry(<<AddTool>>)>>

\* The values Agent.Tools may be given: nothing, the tools above, a toolkit
\* that provides no tool, and a toolkit that provides a tool under the name
\* of a tool registered beside it.
ToolsInputs ==
    { <<>>,
      AgentTools,
      <<KitEntry(<<>>)>>,
      <<ToolEntry(CalculateTool), KitEntry(<<AddTool, Tool("calculate", <<"Evaluate a product">>)>>)>> }

\* tool.Execute(ctx, args): fails on a payload without the required
\* parameter, returns the encoded result otherwise.
Execute(tool, args) ==
    IF args = EmptyArgs
    THEN [result |-> <<>>, failed |-> TRUE, err |-> <<"missing required parameter: ", "a">>]
    ELSE [result |-> <<"4">>, failed |-> FALSE, err |-> <<>>]

\* Tool.Tools(): a Tool is the toolkit of itself.
ToolTools(t) == <<t>>

\* Variant: the toolkit branch calls Tools() on the zero Tool left by the
\* failed type assertion, which returns that zero Tool.
RECURSIVE processToolsFromZero(_)
processToolsFromZero(entries) ==
    IF entries = <<>> THEN <<>>
    ELSE (IF Head(entries).isTool
          THEN <<Head(entries).kit[1]>>
          ELSE <<Tool("", <<>>)>>) \o processToolsFromZero(Tail(entries))

RECURSIVE processToolsFrom(_)
processToolsFrom(entries) ==
    IF entries = <<>> THEN <<>>
    ELSE (IF Head(entries).isTool
          THEN <<Head(entries).kit[1]>>
          ELSE Head(entries).kit) \o processToolsFrom(Tail(entries))

\* Agent.processTools
processTools(entries) ==
    IF Len(entries) = 0 THEN <<>> ELSE processToolsFrom(entries)

\* Agent.GetAllTools: the value returned, which is also the value the
\* cache _tools holds afterwards.
GetAllTools(cache, entries) ==
    IF Len(cache) > 0 THEN cache ELSE processTools(entries)

\* findTool: the index of the first tool of that name, 0 when there is none.
RECURSIVE findToolFrom(_, _, _)
findToolFrom(ts, name, i) ==
    IF i > Len(ts) THEN 0
    ELSE IF ts[i].Name = name THEN i
    ELSE findToolFrom(ts, name, i + 1)

\* Variant: a name that matches no tool falls back to the first tool.
findToolFallback(ts, name) ==
    IF findToolFrom(ts, name, 1) = 0 /\ Len(ts) > 0 THEN 1 ELSE findToolFrom(ts, name, 1)

findTool(ts, name) == findToolFrom(ts, name, 1)

\* The number of entries of Agent.Tools whose Tools() method processTools
\* invokes: those that are not a Tool themselves.
KitCount(entries) == Len(SelectSeq(entries, LAMBDA e : ~e.isTool))

\* What the calls of the registry have done so far: the number of
\* GetAllTools calls, of processTools runs and of Tools() invocations on
\* toolkits, the lists the first and the last GetAllTools call returned, and
\* the list the last direct processTools call returned.
NoRegistry ==
    [gets |-> 0, flattens |-> 0, kitCalls |-> 0, first |-> <<>>, last |-> <<>>,
     processes |-> 0, processed |-> <<>>]

\* One GetAllTools call on an agent whose cache and Tools are given.
RegistryGet(r, cache, entries) ==
    [r EXCEPT !.gets = @ + 1,
              !.flattens = IF Len(cache) > 0 THEN @ ELSE @ + 1,
              !.kitCalls = IF Len(cache) > 0 THEN @ ELSE @ + KitCount(entries),
              !.first = IF r.gets = 0 THEN GetAllTools(cache, entries) ELSE @,
              !.last = GetAllTools(cache, entries)]

\* One direct processTools call.
RegistryProcess(r, entries) ==
    [r EXCEPT !.processes = @ + 1,
              !.kitCalls = @ + KitCount(entries),
              !.processed = processTools(entries)]

\* The model's view of its tools: Model.Init marks it initialised, SetTools
\* stores the list and notes whether Init had run before.
NoModelTools == [init |-> FALSE, set |-> FALSE, tools |-> <<>>, calls |-> 0, afterInit |-> FALSE]
ModelInit(mt) == [mt EXCEPT !.init = TRUE]
SetTools(mt, ts) ==
    [mt EXCEPT !.set = TRUE, !.tools = ts, !.calls = @ + 1, !.afterInit = mt.init]

(***************************************************************************)
(* Agent.getSystemMessage over the settings of the agent.                  *)
(***************************************************************************)
NilInstructions == [type |-> "nil", text |-> <<>>, list |-> <<>>]
\* Instructions holding a value that is neither a string nor a []string.
OtherInstructions == [type |-> "other", text |-> <<>>, list |-> <<>>]
StringInstructions(s) == [type |-> "string", text |-> s, list |-> <<>>]
ListInstructions(l) == [type |-> "[]string", text |-> <<>>, list |-> l]

RECURSIVE Bullets(_)
Bullets(items) ==
    IF items = <<>> THEN <<>>
    ELSE <<"\n- ">> \o Head(items) \o Bullets(Tail(items))

InstructionsBlock(instr) ==
    IF instr.type = "string"
    THEN (IF instr.text # <<>>
          THEN <<"<instructions>\n">> \o instr.text \o <<"\n</instructions>\n\n">>
          ELSE <<>>)
    ELSE IF instr.type = "[]string"
    THEN (IF Len(instr.list) > 0
          THEN <<"<instructions>">> \o Bullets(instr.list) \o <<"\n</instructions>\n\n">>
          ELSE <<>>)
    ELSE <<>>

\* Variant: the role block is written before the goal block, and an override
\* suppresses the markdown directive.
systemMessageContentRoleFirst(s) ==
    IF s.SystemMessage # <<>> THEN s.SystemMessage
    ELSE (IF s.Description # <<>> THEN s.Description \o <<"\n\n">> ELSE <<>>)
      \o (IF s.Role # <<>>
          THEN <<"<your_role>\n">> \o s.Role \o <<"\n</your_role>\n\n">> ELSE <<>>)
      \o (IF s.Goal # <<>>
          THEN <<"<your_goal>\n">> \o s.Goal \o <<"\n</your_goal>\n\n">> ELSE <<>>)
      \o InstructionsBlock(s.Instructions)
      \o (IF s.Markdown
          THEN <<"<additional_information>", "\n- ", "Use markdown to format your answers.",
                 "\n</additional_information>\n\n">>
          ELSE <<>>)

systemMessageContent(s) ==
    LET body ==
            IF s.SystemMessage # <<>> THEN s.SystemMessage
            ELSE (IF s.Description # <<>> THEN s.Description \o <<"\n\n">> ELSE <<>>)
              \o (IF s.Goal # <<>>
                  THEN <<"<your_goal>\n">> \o s.Goal \o <<"\n</your_goal>\n\n">> ELSE <<>>)
              \o (IF s.Role # <<>>
                  THEN <<"<your_role>\n">> \o s.Role \o <<"\n</your_role>\n\n">> ELSE <<>>)
              \o InstructionsBlock(s.Instructions)
        additionalInformation ==
            IF s.Markdown THEN << <<"Use markdown to format your answers.">> >> ELSE <<>>
    IN  body \o (IF Len(additionalInformation) > 0
                 THEN <<"<additional_information>">> \o Bullets(additionalInformation)
                        \o <<"\n</additional_information>\n\n">>
                 ELSE <<>>)

getSystemMessage(s) == Message("system", systemMessageContent(s), NoID, <<>>, <<>>, <<>>)

Settings(sys, desc, goal, role, instr, md) ==
    [SystemMessage |-> sys, Description |-> desc, Goal |-> goal, Role |-> role,
     Instructions |-> instr, Markdown |-> md]

\* The settings the exploration constructs agents with.
SettingsInputs ==
    { Settings(<<>>, <<"You are helpful">>, <<>>, <<>>, NilInstructions, FALSE) }

\* Every combination of empty and supplied settings: the values are those of
\* TestGetSystemMessage, with an override and the other Instructions types.
AllSettings ==
    { Settings(sys, desc, goal, role, instr, md) :
        sys \in { <<>>, <<"Be brief">> },
        desc \in { <<>>, <<"Test agent">> },
        goal \in { <<>>, <<"Test goal">> },
        role \in { <<>>, <<"Test role">> },
        instr \in { NilInstructions, OtherInstructions,
                    StringInstructions(<<>>),
                    StringInstructions(<<"Remember to be concise.">>),
                    ListInstructions(<<>>),
                    ListInstructions(<< <<"Step 1">>, <<"Step 2">> >>) },
        md \in BOOLEAN }

\* The settings a caller may assign later on.
SettingsChanges ==
    SettingsInputs \cup
    { Settings(<<>>, <<>>, <<>>, <<>>, NilInstructions, FALSE),
      Settings(<<"Be brief">>, <<"You are helpful">>, <<"g">>, <<"r">>,
               StringInstructions(<<"i">>), TRUE),
      Settings(<<>>, <<>>, <<"g">>, <<>>, ListInstructions(<< <<"i1">>, <<"i2">> >>),
               FALSE) }

(***************************************************************************)
(* Inputs of the exploration: what callers pass and what the model and     *)
(* its stream may answer.                                                  *)
(***************************************************************************)
UserInputs == { <<"What is 2+2?">> }
MediaInputs == { <<"image", "audio">> }
Texts == { <<>>, <<"4">> }
\* Data of a "complete" response.
FinalTexts == { <<"4">> }
\* Data of a streamed "tool_call" event: the content accumulated so far.
StreamCallTexts == { <<"4">> }
Chunks == { <<"a">>, <<"b">> }
ModelErrors == { <<"context canceled">> }
UnexpectedEvents == { "chunk", "end", "error" }
IgnoredStreamEvents == { "error", "complete" }

\* What the model may ask for: a tool that succeeds, a tool whose executor
\* fails, and a name that matches no registered tool.
CallShapes ==
    { [Name |-> "calculate", Arguments |-> GoodArgs],
      [Name |-> "add", Arguments |-> EmptyArgs],
      [Name |-> "unknown", Arguments |-> GoodArgs] }

\* The ToolCall lists of one model turn; ids are assigned from first on.
CallLists(first) ==
    UNION { { [i \in 1..n |-> ToolCall(CallID(first + i - 1), s[i].Name, s[i].Arguments)] :
                s \in [1..n -> CallShapes] } :
            n \in 0..Min(MaxCalls, MaxIds - first + 1) }

(***************************************************************************)
(* CreateToolFromMethod: the derivation of a Tool from a method of a        *)
(* toolkit.  A method is what reflection and the parsed source give: whether*)
(* it exists, whether its first parameter is a context.Context, its return  *)
(* values, its doc comment as lines, the parameter names of the syntax tree *)
(* and the parameter types of the reflected signature.                      *)
(***************************************************************************)
GoType(kind, elem) == [kind |-> kind, elem |-> elem]
Scalar(kind) == GoType(kind, "none")

\* Variant: the unsigned integer kinds are mapped to "integer" as well.
goTypeToJSONSchemaTypeUnsigned(t) ==
    CASE t.kind \in {"int", "int8", "int16", "int32", "int64",
                     "uint", "uint8", "uint16", "uint32", "uint64"} -> "integer"
      [] t.kind \in {"float32", "float64"} -> "number"
      [] t.kind = "string" -> "string"
      [] t.kind = "bool" -> "boolean"
      [] t.kind = "slice" -> "array"
      [] t.kind = "map" -> "object"
      [] OTHER -> ""

\* goTypeToJSONSchemaType: the schema type of a parameter type, "" when the
\* kind is not supported.
goTypeToJSONSchemaType(t) ==
    CASE t.kind \in {"int", "int8", "int16", "int32", "int64"} -> "integer"
      [] t.kind \in {"float32", "float64"} -> "number"
      [] t.kind = "string" -> "string"
      [] t.kind = "bool" -> "boolean"
      [] t.kind = "slice" -> "array"
      [] t.kind = "map" -> "object"
      [] OTHER -> ""

\* One line of a doc comment: free text, or a line that starts with
\* "@param " or "@params ", may carry "[optional] " next, and has a name and
\* a description when a colon separates them.
DocText(text) ==
    [tag |-> "text", optional |-> FALSE, colon |-> FALSE, name |-> "", text |-> text]
DocParam(tag, optional, colon, name, text) ==
    [tag |-> tag, optional |-> optional, colon |-> colon, name |-> name, text |-> text]

\* Variant: the [optional] marker is not looked at.
RECURSIVE DocRequiredAll(_)
DocRequiredAll(lines) ==
    IF lines = <<>> THEN <<>>
    ELSE LET l == Head(lines)
         IN  (IF l.tag \in {"@param", "@params"} /\ l.colon
              THEN <<l.name>> ELSE <<>>) \o DocRequiredAll(Tail(lines))

\* The doc-comment loop of CreateToolFromMethod over lines[1:]: the names
\* appended to required, in the order of the lines.
RECURSIVE DocRequired(_)
DocRequired(lines) ==
    IF lines = <<>> THEN <<>>
    ELSE LET l == Head(lines)
         IN  (IF l.tag \in {"@param", "@params"} /\ l.colon /\ ~l.optional
              THEN <<l.name>> ELSE <<>>) \o DocRequired(Tail(lines))

\* paramDescs[name]: the description of the last line for that name, empty
\* when there is none.
RECURSIVE DocDescription(_, _)
DocDescription(lines, name) ==
    IF lines = <<>> THEN <<>>
    ELSE LET l == lines[Len(lines)]
         IN  IF l.tag \in {"@param", "@params"} /\ l.colon /\ l.name = name
             THEN l.text
             ELSE DocDescription(SubSeq(lines, 1, Len(lines) - 1), name)

Method(name, found, ctx, outs, outError, hasDoc, doc, names, types) ==
    [name |-> name, found |-> found, ctx |-> ctx, outs |-> outs, outError |-> outError,
     hasDoc |-> hasDoc, doc |-> doc, names |-> names, types |-> types]

Contains(s, x) == \E i \in 1..Len(s) : s[i] = x

\* The first parameter type that has no schema type, 0 when all have one.
RECURSIVE FirstUnsupported(_, _)
FirstUnsupported(types, i) ==
    IF i > Len(types) THEN 0
    ELSE IF goTypeToJSONSchemaType(types[i]) = "" THEN i
    ELSE FirstUnsupported(types, i + 1)

\* Tool{}: what CreateToolFromMethod returns beside an error.
ZeroTool ==
    [Name |-> "", Description |-> <<>>,
     Parameters |-> [type |-> "", properties |-> <<>>, required |-> <<>>],
     paramNames |-> <<>>, paramTypes |-> <<>>, hasError |-> FALSE]

DerivationError(err) == [ok |-> FALSE, err |-> err, tool |-> ZeroTool]

\* CreateToolFromMethod(toolkit, methodName) on the method of that name.
CreateToolFromMethod(m) ==
    IF ~m.found THEN DerivationError(<<"method ", m.name, " not found">>)
    ELSE IF ~m.ctx
    THEN DerivationError(<<"method must have context.Context as first parameter after receiver">>)
    ELSE IF ~(m.outs = 1 \/ (m.outs = 2 /\ m.outError))
    THEN DerivationError(<<"method must return one value or (value, error)">>)
    ELSE IF ~m.hasDoc THEN DerivationError(<<"method ", m.name, " has no doc comments">>)
    ELSE IF Len(m.names) # Len(m.types) THEN DerivationError(<<"parameter count mismatch">>)
    ELSE IF FirstUnsupported(m.types, 1) # 0
    THEN DerivationError(<<"unsupported parameter type: ",
                           m.types[FirstUnsupported(m.types, 1)].kind>>)
    ELSE [ok |-> TRUE, err |-> <<>>,
          tool |-> [Name |-> m.name,
                    Description |-> Head(m.doc).text,
                    Parameters |->
                        [type |-> "object",
                         properties |->
                             [n \in { m.names[i] : i \in 1..Len(m.names) } |->
                                 [type |-> goTypeToJSONSchemaType(
                                              m.types[CHOOSE i \in 1..Len(m.names) :
                                                         m.names[i] = n]),
                                  description |-> DocDescription(Tail(m.doc), n)]],
                         required |-> DocRequired(Tail(m.doc))],
                    paramNames |-> m.names,
                    paramTypes |-> m.types,
                    hasError |-> m.outs = 2]]

(***************************************************************************)
(* The Execute closure of a derived tool.  A payload is the decoded         *)
(* argument map, or text that does not decode; a JSON value is known by its *)
(* kind and, for arrays and objects, the kind of its elements; a Go value   *)
(* by its dynamic type and whether it is the zero value of that type.       *)
(***************************************************************************)
JSON(kind, elems) == [json |-> kind, elems |-> elems]
GoValue(t, zero) == [type |-> t, zero |-> zero]
InvalidPayload == [valid |-> FALSE, argMap |-> <<>>]
Payload(argMap) == [valid |-> TRUE, argMap |-> argMap]

Converted(v) == [ok |-> TRUE, value |-> v, err |-> <<>>]
ConvertError(err) == [ok |-> FALSE, value |-> GoValue(Scalar("invalid"), TRUE), err |-> err]

\* convertJSONValueToGoType on an element of an array or object.
convertElement(jsonKind, kind) ==
    CASE kind \in {"int", "float64"} ->
            IF jsonKind = "number" THEN Converted(GoValue(Scalar(kind), FALSE))
            ELSE ConvertError(<<"cannot convert ", jsonKind, " to ", kind>>)
      [] kind = "string" ->
            IF jsonKind = "string" THEN Converted(GoValue(Scalar(kind), FALSE))
            ELSE ConvertError(<<"cannot convert ", jsonKind, " to ", kind>>)
      [] kind = "bool" ->
            IF jsonKind = "bool" THEN Converted(GoValue(Scalar(kind), FALSE))
            ELSE ConvertError(<<"cannot convert ", jsonKind, " to ", kind>>)
      [] OTHER -> ConvertError(<<"unsupported type: ", kind>>)

\* convertJSONValueToGoType(val, t).
convertJSONValueToGoType(val, t) ==
    CASE t.kind \in {"int", "float64", "string", "bool"} ->
            IF convertElement(val.json, t.kind).ok THEN Converted(GoValue(t, FALSE))
            ELSE convertElement(val.json, t.kind)
      [] t.kind = "slice" ->
            IF val.json # "array" THEN ConvertError(<<"cannot convert ", val.json, " to ", t.kind>>)
            ELSE IF val.elems = "none" \/ convertElement(val.elems, t.elem).ok
            THEN Converted(GoValue(t, val.elems = "none"))
            ELSE convertElement(val.elems, t.elem)
      [] t.kind = "map" ->
            IF val.json # "object" THEN ConvertError(<<"cannot convert ", val.json, " to ", t.kind>>)
            ELSE IF val.elems = "none" \/ convertElement(val.elems, t.elem).ok
            THEN Converted(GoValue(t, val.elems = "none"))
            ELSE convertElement(val.elems, t.elem)
      [] OTHER -> ConvertError(<<"unsupported type: ", t.kind>>)

\* The switch on paramTypes[i].Kind() for an absent optional parameter.
DefaultValue(t) ==
    CASE t.kind = "string" -> Converted(GoValue(Scalar("string"), TRUE))
      [] t.kind \in {"int", "int8", "int16", "int32", "int64"} ->
            Converted(GoValue(Scalar("int"), TRUE))
      [] t.kind \in {"float32", "float64"} -> Converted(GoValue(Scalar("float64"), TRUE))
      [] t.kind = "bool" -> Converted(GoValue(Scalar("bool"), TRUE))
      [] t.kind = "slice" -> Converted(GoValue(GoType("slice", "interface"), TRUE))
      [] t.kind = "map" -> Converted(GoValue(GoType("map", "interface"), TRUE))
      [] OTHER -> ConvertError(<<"optional Parameter with type ", t.kind, " not supported">>)

ExecuteResult(kind, err, args) == [kind |-> kind, err |-> err, args |-> args]

\* Variant: an absent parameter is given its default whether required or not.
RECURSIVE BuildArgumentsLenient(_, _, _, _)
BuildArgumentsLenient(tool, argMap, i, args) ==
    IF i > Len(tool.paramNames) THEN ExecuteResult("call", <<>>, args)
    ELSE LET name == tool.paramNames[i]
             t == tool.paramTypes[i]
             v == IF name \in DOMAIN argMap THEN convertJSONValueToGoType(argMap[name], t)
                  ELSE DefaultValue(t)
         IN  IF v.ok THEN BuildArgumentsLenient(tool, argMap, i + 1, Append(args, v.value))
             ELSE ExecuteResult("error", v.err, <<>>)

\* The loop that builds the argument list, from parameter i on: the
\* arguments, or the error it returns.
RECURSIVE BuildArguments(_, _, _, _)
BuildArguments(tool, argMap, i, args) ==
    IF i > Len(tool.paramNames) THEN ExecuteResult("call", <<>>, args)
    ELSE LET name == tool.paramNames[i]
             t == tool.paramTypes[i]
         IN  IF name \notin DOMAIN argMap
             THEN IF Contains(tool.Parameters.required, name)
                  THEN ExecuteResult("error", <<"missing required parameter: ", name>>, <<>>)
                  ELSE IF DefaultValue(t).ok
                  THEN BuildArguments(tool, argMap, i + 1, Append(args, DefaultValue(t).value))
                  ELSE ExecuteResult("error", DefaultValue(t).err, <<>>)
             ELSE LET c == convertJSONValueToGoType(argMap[name], t)
                  IN  IF c.ok THEN BuildArguments(tool, argMap, i + 1, Append(args, c.value))
                      ELSE ExecuteResult("error",
                                         <<"type conversion failed for ", name, ": ">> \o c.err,
                                         <<>>)

\* The closure execute(ctx, args) of a derived tool: kind is "ok" when the
\* method was invoked and returned, "failed" when it returned an error,
\* "panic" when reflection rejected an argument of a type the parameter
\* does not take, and "error" when the closure returned before the call.
execute(tool, payload, fails) ==
    IF ~payload.valid THEN ExecuteResult("error", <<"failed to unmarshal args">>, <<>>)
    ELSE LET b == BuildArguments(tool, payload.argMap, 1, <<>>)
         IN  IF b.kind = "error" THEN b
             ELSE IF \E i \in 1..Len(b.args) : b.args[i].type # tool.paramTypes[i]
             THEN ExecuteResult("panic", <<"reflect: Call using value of another type">>, b.args)
             ELSE IF tool.hasError /\ fails
             THEN ExecuteResult("failed", <<"method error">>, b.args)
             ELSE ExecuteResult("ok", <<>>, b.args)

(***************************************************************************)
(* A toolkit in the manner of CalculatorTools: one enable flag per method   *)
(* and EnableAll; Tools() derives a tool from each enabled method.          *)
(***************************************************************************)
Toolkit(methods, enable, all) == [methods |-> methods, enable |-> enable, EnableAll |-> all]
NoToolkit == Toolkit(<<>>, <<>>, FALSE)

\* Variant: the tool is appended whether or not the derivation failed.
RECURSIVE ToolkitToolsUnchecked(_, _)
ToolkitToolsUnchecked(c, i) ==
    IF i > Len(c.methods) THEN <<>>
    ELSE (IF c.enable[i] \/ c.EnableAll
          THEN <<CreateToolFromMethod(c.methods[i]).tool>>
          ELSE <<>>) \o ToolkitToolsUnchecked(c, i + 1)

\* (c *CalculatorTools) Tools(), from the i-th method on.
RECURSIVE ToolkitTools(_, _)
ToolkitTools(c, i) ==
    IF i > Len(c.methods) THEN <<>>
    ELSE (IF (c.enable[i] \/ c.EnableAll) /\ CreateToolFromMethod(c.methods[i]).ok
          THEN <<CreateToolFromMethod(c.methods[i]).tool>>
          ELSE <<>>) \o ToolkitTools(c, i + 1)

(***************************************************************************)
(* Inputs of the derivation: methods of up to MaxParams parameters, their   *)
(* doc comments, and the payloads a model may send.                         *)
(***************************************************************************)
ParamNames == <<"a", "b", "c", "d">>

\* A parameter of a method under derivation: its type and how the doc
\* comment mentions it.
BasicChoices ==
    { [type |-> Scalar(k), doc |-> d] :
        k \in {"int", "string"}, d \in {"required", "optional", "none"} }
    \cup { [type |-> Scalar("int"), doc |-> d] : d \in {"params", "nocolon"} }
OtherChoices ==
    { [type |-> t, doc |-> "optional"] :
        t \in { Scalar(k) : k \in {"int8", "int64", "uint", "float32", "float64",
                                   "bool", "struct"} }
              \cup { GoType(k, e) : k \in {"slice", "map"}, e \in {"int", "interface"} } }
ParamChoices == BasicChoices \cup OtherChoices

\* The parameter lists of length n: at most one parameter is of a type other
\* than int and string.
ParamLists(n) ==
    { params \in [1..n -> ParamChoices] :
        Cardinality({ i \in 1..n : params[i] \in OtherChoices }) <= 1 }

\* The doc-comment lines of the parameters from the i-th on.
RECURSIVE ParamLines(_, _)
ParamLines(params, i) ==
    IF i > Len(params) THEN <<>>
    ELSE (CASE params[i].doc = "required" ->
                  <<DocParam("@param", FALSE, TRUE, ParamNames[i], <<"The ", ParamNames[i]>>)>>
            [] params[i].doc = "params" ->
                  <<DocParam("@params", FALSE, TRUE, ParamNames[i], <<"The ", ParamNames[i]>>)>>
            [] params[i].doc = "optional" ->
                  <<DocParam("@param", TRUE, TRUE, ParamNames[i], <<"The ", ParamNames[i]>>)>>
            [] params[i].doc = "nocolon" ->
                  <<DocParam("@param", FALSE, FALSE, "", <<ParamNames[i]>>)>>
            [] OTHER -> <<>>)
         \o ParamLines(params, i + 1)

Reverse(s) == [i \in 1..Len(s) |-> s[Len(s) + 1 - i]]

\* A method of a toolkit with these parameters, documented in declaration
\* order or the other way round.
DocumentedMethod(name, params, order, outs) ==
    Method(name, TRUE, TRUE, outs, outs = 2, TRUE,
           <<DocText(<<name, " does something.">>)>>
              \o (IF order = "declared" THEN ParamLines(params, 1)
                  ELSE Reverse(ParamLines(params, 1)))
              \o <<DocText(<<"It returns a value.">>)>>,
           [i \in 1..Len(params) |-> ParamNames[i]],
           [i \in 1..Len(params) |-> params[i].type])

\* The methods of helper_test.go's TestToolkit that derivation rejects, and
\* one whose parameters the syntax tree leaves unnamed.
AddParams == << [type |-> Scalar("int"), doc |-> "required"],
               [type |-> Scalar("int"), doc |-> "required"] >>
AddMethod == DocumentedMethod("Add", AddParams, "declared", 1)
RejectedMethods ==
    { [AddMethod EXCEPT !.name = "Subtract", !.found = FALSE],
      [AddMethod EXCEPT !.name = "NoCtx", !.ctx = FALSE],
      [AddMethod EXCEPT !.name = "NoReturn", !.outs = 0],
      [AddMethod EXCEPT !.name = "TooManyReturns", !.outs = 3],
      [AddMethod EXCEPT !.name = "TwoValues", !.outs = 2, !.outError = FALSE],
      [AddMethod EXCEPT !.name = "NoDoc", !.hasDoc = FALSE, !.doc = <<>>],
      [AddMethod EXCEPT !.name = "Unnamed", !.names = <<>>] }

\* Add(a, b int) under a doc comment that was left behind by a renaming: its
\* second line still names z.
StaleMethod ==
    [AddMethod EXCEPT !.name = "Stale",
                      !.doc = <<DocText(<<"Stale", " does something.">>),
                                DocParam("@param", FALSE, TRUE, "a", <<"The ", "a">>),
                                DocParam("@param", FALSE, TRUE, "z", <<"The ", "z">>)>>]

\* The methods under derivation: those above, methods that return a value,
\* and methods over int and string that return (value, error) and are
\* documented in the reverse of the declaration order.
Methods ==
    RejectedMethods
    \cup {StaleMethod}
    \cup UNION { { DocumentedMethod("Method", params, "declared", 1) : params \in ParamLists(n) } :
                 n \in 0..MaxParams }
    \cup UNION { { DocumentedMethod("Method", params, "reversed", 2) :
                     params \in [1..n -> BasicChoices] } :
                 n \in 0..MaxParams }

\* A JSON value of the kind the parameter type takes, and one of another
\* kind.
GoodJSON(t) ==
    CASE t.kind = "string" -> JSON("string", "none")
      [] t.kind = "bool" -> JSON("bool", "none")
      [] t.kind = "slice" -> JSON("array", IF t.elem = "int" THEN "number" ELSE "none")
      [] t.kind = "map" -> JSON("object", IF t.elem = "int" THEN "number" ELSE "none")
      [] OTHER -> JSON("number", "none")
BadJSON(t) == IF t.kind = "string" THEN JSON("number", "none") ELSE JSON("string", "none")

\* The payloads sent to a tool: text that does not decode, and the objects
\* in which each parameter is absent, well-typed or ill-typed.
Payloads(tool) ==
    {InvalidPayload} \cup
    { Payload([n \in { tool.paramNames[i] : i \in { j \in 1..Len(tool.paramNames) :
                                                      c[j] # "absent" } } |->
                 LET i == CHOOSE j \in 1..Len(tool.paramNames) : tool.paramNames[j] = n
                 IN  IF c[i] = "good" THEN GoodJSON(tool.paramTypes[i])
                     ELSE BadJSON(tool.paramTypes[i])]) :
        c \in [1..Len(tool.paramNames) -> {"absent", "good", "bad"}] }

\* The toolkits of MaxMethods methods: each method derives or is rejected
\* for one of the reasons of CreateToolFromMethod.
KitNames == <<"Add", "Subtract", "Multiply", "Divide">>
KitMethod(name, shape) ==
    CASE shape = "noctx" -> [AddMethod EXCEPT !.name = name, !.ctx = FALSE]
      [] shape = "noreturn" -> [AddMethod EXCEPT !.name = name, !.outs = 0]
      [] shape = "nodoc" -> [AddMethod EXCEPT !.name = name, !.hasDoc = FALSE, !.doc = <<>>]
      [] shape = "uint" ->
            DocumentedMethod(name, << [type |-> Scalar("uint"), doc |-> "required"] >>,
                             "declared", 1)
      [] OTHER -> DocumentedMethod(name, AddParams, "declared", 1)
Toolkits ==
    { Toolkit([i \in 1..MaxMethods |-> KitMethod(KitNames[i], shapes[i])], enable, all) :
        shapes \in [1..MaxMethods -> {"ok", "noctx", "noreturn", "nodoc", "uint"}],
        enable \in [1..MaxMethods -> BOOLEAN],
        all \in BOOLEAN }

(***************************************************************************)
(* The streaming model adapters, OpenAIChat.ChatCompletionStream and       *)
(* Claude.ChatCompletionStream.  The provider streams deltas: a text        *)
(* fragment, the start of the tool call at an index (its id and name), or   *)
(* a further piece of the arguments of the tool call at an index.  The      *)
(* adapter sends a chunk event per text fragment and collects the tool      *)
(* calls in a map keyed by index; when the provider stream ends it sends    *)
(* one tool_call event if the map is not empty, and then the end event.     *)
(***************************************************************************)
TextDelta(text) == [kind |-> "text", text |-> text, index |-> 0, call |-> ToolCall(NoID, "", <<>>)]
ToolDelta(index, id, name) ==
    [kind |-> "tool", text |-> <<>>, index |-> index, call |-> ToolCall(id, name, <<>>)]
ArgsDelta(index, arguments) ==
    [kind |-> "args", text |-> <<>>, index |-> index, call |-> ToolCall(NoID, "", arguments)]

\* content: the text accumulated over the deltas.
RECURSIVE AdapterContent(_)
AdapterContent(deltas) ==
    IF deltas = <<>> THEN <<>>
    ELSE (IF Head(deltas).kind = "text" THEN Head(deltas).text ELSE <<>>)
            \o AdapterContent(Tail(deltas))

\* The chunk events sent while the deltas arrive.  The OpenAI adapter skips
\* a delta without content.
RECURSIVE AdapterChunks(_, _)
AdapterChunks(adapter, deltas) ==
    IF deltas = <<>> THEN <<>>
    ELSE (IF Head(deltas).kind = "text" /\ (adapter = "claude" \/ Head(deltas).text # <<>>)
          THEN <<ModelResponse("chunk", Head(deltas).text, <<>>)>>
          ELSE <<>>)
            \o AdapterChunks(adapter, Tail(deltas))

\* toolCalls: the map from index to ToolCall after the deltas, starting from
\* the map acc.  OpenAI appends the arguments of a delta whose index is in
\* the map and stores the delta's call otherwise; Claude stores the id and
\* name of a tool-use block and appends a piece of arguments when its index
\* is in the map.
RECURSIVE AdapterToolCalls(_, _, _)
AdapterToolCalls(adapter, deltas, acc) ==
    IF deltas = <<>> THEN acc
    ELSE LET d == Head(deltas)
             stored == IF adapter = "claude" THEN ToolCall(d.call.ID, d.call.Name, <<>>)
                       ELSE d.call
             extended ==
                 IF d.index \in DOMAIN acc
                 THEN [acc EXCEPT ![d.index] =
                          ToolCall(@.ID, @.Name, @.Arguments \o d.call.Arguments)]
                 ELSE acc
             put == [i \in DOMAIN acc \cup {d.index} |->
                        IF i = d.index THEN stored ELSE acc[i]]
             next == CASE d.kind = "text" -> acc
                       [] adapter = "openai" -> IF d.index \in DOMAIN acc THEN extended ELSE put
                       [] d.kind = "tool" -> put
                       [] OTHER -> extended
         IN  AdapterToolCalls(adapter, Tail(deltas), next)

NoToolCalls == [i \in {} |-> ToolCall(NoID, "", <<>>)]

\* The orders in which the loop "for _, tc := range toolCalls" may visit the
\* keys of the map: Go leaves the iteration order of a map unspecified.
RangeOrders(keys) ==
    { o \in [1..Cardinality(keys) -> keys] :
        \A i, j \in 1..Cardinality(keys) : o[i] = o[j] => i = j }

\* Data of the tool_call event: OpenAI sends the accumulated content again,
\* Claude sends none.
ToolCallData(adapter, deltas) ==
    IF adapter = "openai" THEN AdapterContent(deltas) ELSE <<>>

\* The events the adapter sends for the deltas of one provider stream when
\* the map is visited in this order.
AdapterEvents(adapter, deltas, order) ==
    LET calls == AdapterToolCalls(adapter, deltas, NoToolCalls)
    IN  AdapterChunks(adapter, deltas)
           \o (IF DOMAIN calls # {}
               THEN <<ModelResponse("tool_call", ToolCallData(adapter, deltas),
                                    [i \in 1..Len(order) |-> calls[order[i]]])>>
               ELSE <<>>)
           \o <<ModelResponse("end", <<>>, <<>>)>>

\* The provider streams under test.  A stream is up to MaxEvents - 1 text
\* fragments followed by the deltas of up to MaxCalls tool calls, indexed
\* from 0, each arriving as its start and then its arguments.
FragmentLists(n) == UNION { [1..k -> Chunks] : k \in 0..n }
ProviderShapes ==
    { [Name |-> "calculate", Arguments |-> GoodArgs],
      [Name |-> "add", Arguments |-> EmptyArgs] }
RECURSIVE ToolDeltas(_, _)
ToolDeltas(shapes, i) ==
    IF i > Len(shapes) THEN <<>>
    ELSE <<ToolDelta(i - 1, CallID(i), shapes[i].Name),
           ArgsDelta(i - 1, shapes[i].Arguments)>> \o ToolDeltas(shapes, i + 1)
ProviderStreams(maxCalls) ==
    { [i \in 1..Len(f) |-> TextDelta(f[i])] \o ToolDeltas(s, 1) :
        f \in FragmentLists(MaxEvents - 1),
        s \in UNION { [1..n -> ProviderShapes] : n \in 0..maxCalls } }

\* The provider behind the adapter: what it streams in answer to the first
\* and to the second request.  The second answer asks for no tool.
Provider(adapter, turns) == [adapter |-> adapter, turns |-> turns]
NoProvider == Provider("none", <<>>)
Providers ==
    { Provider(a, <<t1, t2>>) :
        a \in {"openai", "claude"},
        t1 \in ProviderStreams(MaxCalls),
        t2 \in { [i \in 1..Len(f) |-> TextDelta(f[i])] : f \in FragmentLists(1) } }

(***************************************************************************)
(* State.  Agent fields: Model, settings (SystemMessage, Description,      *)
(* Goal, Instructions, Role, Markdown), Tools, Messages, isInit, _tools.   *)
(* modelTools is what the model was given by SetTools.  pc is the position *)
(* of the run in flight; response, toolCalls, idx, fullResponse are the    *)
(* locals of Run and of the RunStream producer.  pending holds the events  *)
(* the producer is blocked sending on ch, ch the events the caller has     *)
(* received.  The remaining variables record what happened: executors      *)
(* invoked, the history handed to the last model call, the outcome of the  *)
(* last operation, the lengths of respLog at which the model streams of    *)
(* the run were opened, the calls made to the registry.  caller is a       *)
(* second task of the program calling AddMessage: its position, the        *)
(* history it has read, and the number of its calls.                       *)
(***************************************************************************)
\* provider is the provider behind a streaming adapter and what it will stream.
\* toolkit is the toolkit the agent's Tools were taken from, method the method
\* handed to CreateToolFromMethod, derived what it returned, and outcome the
\* payload and the result of the last call of the derived tool's Execute.
VARIABLES Model, settings, Tools, Messages, isInit, _tools, modelTools,
          pc, response, toolCalls, idx, result,
          fullResponse, respCount, pending, resume, ch, chClosed,
          executed, nextId, runs, modelCalls, callHist, runHist, respLog, composed,
          opened, reg, caller,
          toolkit, method, derived, outcome,
          provider

agentVars == <<Model, settings, Tools, Messages, isInit, _tools, modelTools, composed, reg>>
runVars == <<pc, response, toolCalls, idx, result>>
streamVars == <<fullResponse, respCount, pending, resume, ch, chClosed>>
logVars == <<executed, nextId, runs, modelCalls, callHist, runHist, respLog, opened, caller>>
deriveVars == <<toolkit, method, derived, outcome>>
vars == <<agentVars, runVars, streamVars, logVars, deriveVars, provider>>

NoResponse == ModelResponse("", <<>>, <<>>)
Outcome(kind, resp, err) == [kind |-> kind, response |-> resp, err |-> err]

NotDerived == [done |-> FALSE, ok |-> FALSE, err |-> <<>>, tool |-> ZeroTool]
NoOutcome == [payload |-> InvalidPayload, result |-> ExecuteResult("none", <<>>, <<>>)]

InitFields ==
    /\ Model \in {"nil", "model"}
    /\ Messages = <<>>
    /\ isInit = FALSE
    /\ _tools = <<>>
    /\ modelTools = NoModelTools
    /\ composed = <<>>
    /\ pc = "idle"
    /\ response = NoResponse
    /\ toolCalls = <<>>
    /\ idx = 0
    /\ result = Outcome("none", NoResponse, <<>>)
    /\ fullResponse = <<>>
    /\ respCount = 0
    /\ pending = <<>>
    /\ resume = "idle"
    /\ ch = <<>>
    /\ chClosed = FALSE
    /\ executed = <<>>
    /\ nextId = 1
    /\ runs = 0
    /\ modelCalls = 0
    /\ callHist = <<>>
    /\ runHist = <<>>
    /\ respLog = <<>>
    /\ opened = <<>>
    /\ reg = NoRegistry
    /\ caller = [pc |-> "idle", seen |-> <<>>, adds |-> 0]

\* No toolkit is under derivation.
InitNoDerivation ==
    /\ provider = NoProvider
    /\ toolkit = NoToolkit
    /\ method = [AddMethod EXCEPT !.name = "", !.found = FALSE]
    /\ derived = NotDerived
    /\ outcome = NoOutcome

Init ==
    /\ settings \in SettingsInputs
    /\ Tools = AgentTools
    /\ InitNoDerivation
    /\ InitFields

(***************************************************************************)
(* Agent.Init: the values the agent's fields hold after a call.            *)
(***************************************************************************)
\* Variant: the system message is inserted on every call.
InitMessagesUnguarded ==
    IF getSystemMessage(settings).Content # <<>>
    THEN Append(Messages, getSystemMessage(settings))
    ELSE Messages

InitMessages ==
    IF isInit THEN Messages
    ELSE IF Len(Messages) = 0 /\ getSystemMessage(settings).Content # <<>>
         THEN Append(Messages, getSystemMessage(settings))
         ELSE Messages

\* The contents getSystemMessage has composed so far.
InitComposed ==
    IF isInit \/ Len(Messages) # 0 THEN composed
    ELSE Append(composed, getSystemMessage(settings).Content)

\* addToolToModel
InitTools ==
    IF isInit \/ Len(Tools) = 0 THEN _tools ELSE GetAllTools(_tools, Tools)

\* Variant: the model is given a fresh flattening instead of GetAllTools().
InitModelToolsFresh ==
    IF isInit THEN modelTools
    ELSE IF Len(Tools) = 0 THEN ModelInit(modelTools)
    ELSE SetTools(ModelInit(modelTools), processTools(Tools))

InitModelTools ==
    IF isInit THEN modelTools
    ELSE IF Len(Tools) = 0 THEN ModelInit(modelTools)
    ELSE SetTools(ModelInit(modelTools), GetAllTools(_tools, Tools))

InitRegistry ==
    IF isInit \/ Len(Tools) = 0 THEN reg ELSE RegistryGet(reg, _tools, Tools)

InitEffect ==
    /\ isInit' = TRUE
    /\ _tools' = InitTools
    /\ modelTools' = InitModelTools
    /\ composed' = InitComposed
    /\ reg' = InitRegistry
    /\ UNCHANGED <<Model, settings, Tools>>

\* Agent.Init called by the caller.
AgentInit ==
    /\ UNCHANGED <<deriveVars, provider>>
    /\ pc = "idle"
    /\ Model # "nil"
    /\ Messages' = InitMessages
    /\ InitEffect
    /\ UNCHANGED <<runVars, streamVars, logVars>>

\* Variant: the model check comes after the agent has been marked initialised.
InitPanicLate ==
    /\ UNCHANGED <<deriveVars, provider>>
    /\ pc = "idle"
    /\ Model = "nil"
    /\ ~isInit
    /\ isInit' = TRUE
    /\ result' = Outcome("panic", NoResponse, <<"Agent must have a model">>)
    /\ UNCHANGED <<Model, settings, Tools, Messages, _tools, modelTools, composed, reg,
                   pc, response, toolCalls, idx, streamVars, logVars>>

\* Init, Run or RunStream on an agent without a model: Init panics.
InitPanic ==
    /\ UNCHANGED <<deriveVars, provider>>
    /\ pc = "idle"
    /\ Model = "nil"
    /\ ~isInit
    /\ result.kind # "panic"
    /\ result' = Outcome("panic", NoResponse, <<"Agent must have a model">>)
    /\ UNCHANGED <<agentVars, pc, response, toolCalls, idx, streamVars, logVars>>

\* The caller assigns the exported settings fields between operations.
SetSettings(s) ==
    /\ UNCHANGED <<deriveVars, provider>>
    /\ pc = "idle"
    /\ settings # s
    /\ settings' = s
    /\ UNCHANGED <<Model, Tools, Messages, isInit, _tools, modelTools, composed, reg,
                   runVars, streamVars, logVars>>

\* Agent.AddMessage
AddMessage(msgs, role, content, media) ==
    Append(msgs, Message(role, content, NoID, <<>>,
                         SelectSeq(media, LAMBDA m : m = "image"),
                         SelectSeq(media, LAMBDA m : m = "audio")))

(***************************************************************************)
(* Agent.Run, one action per step of its loop.                             *)
(***************************************************************************)
\* Init, AddMessage, and the entry into the loop.
RunStart(userMessage, media) ==
    /\ UNCHANGED <<deriveVars, provider>>
    /\ pc = "idle"
    /\ Model # "nil"
    /\ runs < MaxRuns
    /\ runs' = runs + 1
    /\ InitEffect
    /\ Messages' = AddMessage(InitMessages, "user", userMessage, media)
    /\ runHist' = Messages'
    /\ toolCalls' = <<>>
    /\ respLog' = <<>>
    /\ response' = NoResponse
    /\ idx' = 0
    /\ IF Len(Messages') = 0
       THEN /\ pc' = "idle"
            /\ result' = Outcome("err", NoResponse, <<"no messages available for chat completion">>)
       ELSE /\ pc' = "run_model"
            /\ result' = Outcome("running", NoResponse, <<>>)
    /\ fullResponse' = <<>>
    /\ UNCHANGED respCount
    /\ pending' = <<>>
    /\ resume' = "idle"
    /\ ch' = <<>>
    /\ chClosed' = FALSE
    /\ opened' = <<>>
    /\ UNCHANGED <<executed, nextId, modelCalls, callHist, caller>>

\* Variant: the run's messages are rolled back on a model error.
RunModelErrorRollback == SubSeq(Messages, 1, Len(runHist))

\* The history after ChatCompletion has returned an error.
RunModelErrorMessages == Messages

\* ChatCompletion returns an error: Run returns it.
RunModelError(err) ==
    /\ UNCHANGED <<deriveVars, provider>>
    /\ pc = "run_model"
    /\ modelCalls < MaxModelCalls
    /\ modelCalls' = modelCalls + 1
    /\ callHist' = Messages
    /\ Messages' = RunModelErrorMessages
    /\ pc' = "idle"
    /\ result' = Outcome("err", NoResponse, err)
    /\ UNCHANGED <<Model, settings, Tools, isInit, _tools, modelTools, composed, reg,
                   response, toolCalls, idx, streamVars,
                   executed, nextId, runs, runHist, opened, caller, respLog>>

\* Variant: Run returns when a tool_call response lists no ToolCall.
RunToolCallNextReturns(calls) == IF Len(calls) > 0 THEN "run_dispatch" ELSE "idle"

\* Where Run continues after a tool_call response: at the loop over its
\* ToolCalls, or, with none to walk, at the next model call.
RunToolCallNext(calls) == IF Len(calls) > 0 THEN "run_dispatch" ELSE "run_model"

\* Variant: the assistant message of a tool turn does not carry the calls.
RunToolCallMessagesBare(resp) ==
    Append(Messages, Message("assistant", resp.Data, NoID, <<>>, <<>>, <<>>))

\* The history after Run has taken in a tool_call response.
RunToolCallMessages(resp) ==
    Append(Messages, Message("assistant", resp.Data, NoID, resp.ToolCalls, <<>>, <<>>))

\* ChatCompletion returns a tool_call event.
RunToolCall(data, calls) ==
    /\ UNCHANGED <<deriveVars, provider>>
    /\ pc = "run_model"
    /\ modelCalls < MaxModelCalls
    /\ modelCalls' = modelCalls + 1
    /\ callHist' = Messages
    /\ response' = ModelResponse("tool_call", data, calls)
    /\ nextId' = nextId + Len(calls)
    /\ respLog' = Append(respLog, response')
    /\ Messages' = RunToolCallMessages(response')
    /\ pc' = RunToolCallNext(calls)
    /\ idx' = IF Len(calls) > 0 THEN 1 ELSE 0
    /\ UNCHANGED <<Model, settings, Tools, isInit, _tools, modelTools, composed, reg,
                   toolCalls, result, streamVars, executed, runs, runHist, opened, caller>>

\* Variant: the loop walks the list from its end.
NthCallReversed(calls, i) == calls[Len(calls) + 1 - i]

\* The ToolCall the i-th iteration of a range loop over calls dispatches.
NthCall(calls, i) == calls[i]

\* Variant: the result text is not replaced by the error text on failure.
RunToolMessageKeepsResult(toolCall, all) ==
    IF findTool(all, toolCall.Name) = 0
    THEN Message("tool", <<"Error: tool ", toolCall.Name, " not found">>, toolCall.ID,
                 <<>>, <<>>, <<>>)
    ELSE LET r == Execute(all[findTool(all, toolCall.Name)], toolCall.Arguments)
         IN  Message("tool", r.result, toolCall.ID, <<>>, <<>>, <<>>)

\* The message a dispatched ToolCall leaves in history (Run).
RunToolMessage(toolCall, all) ==
    IF findTool(all, toolCall.Name) = 0
    THEN Message("tool", <<"Error: tool ", toolCall.Name, " not found">>, toolCall.ID,
                 <<>>, <<>>, <<>>)
    ELSE LET r == Execute(all[findTool(all, toolCall.Name)], toolCall.Arguments)
         IN  Message("tool", IF r.failed THEN <<"Error: ">> \o r.err ELSE r.result,
                     toolCall.ID, <<>>, <<>>, <<>>)

\* The ToolCalls Run has accumulated for its result after a dispatch.
RunAccumulate(acc, toolCall, all) ==
    IF findTool(all, toolCall.Name) = 0 THEN acc ELSE Append(acc, toolCall)

\* Variant: the executor of a found tool is invoked a second time.
InvokeTwice(log, toolCall, all) ==
    IF findTool(all, toolCall.Name) = 0 THEN log
    ELSE Append(Append(log, toolCall.ID), toolCall.ID)

\* The executors invoked so far, after a dispatch.
Invoke(log, toolCall, all) ==
    IF findTool(all, toolCall.Name) = 0 THEN log ELSE Append(log, toolCall.ID)

\* One iteration of the loop over response.ToolCalls.
RunDispatch ==
    /\ UNCHANGED <<deriveVars, provider>>
    /\ pc = "run_dispatch"
    /\ LET toolCall == NthCall(response.ToolCalls, idx)
           all == GetAllTools(_tools, Tools)
       IN  /\ _tools' = all
           /\ reg' = RegistryGet(reg, _tools, Tools)
           /\ Messages' = Append(Messages, RunToolMessage(toolCall, all))
           /\ executed' = Invoke(executed, toolCall, all)
           /\ toolCalls' = RunAccumulate(toolCalls, toolCall, all)
    /\ IF idx < Len(response.ToolCalls)
       THEN pc' = "run_dispatch" /\ idx' = idx + 1
       ELSE pc' = "run_model" /\ idx' = 0
    /\ UNCHANGED <<Model, settings, Tools, isInit, modelTools, composed,
                   response, result, streamVars,
                   nextId, runs, modelCalls, callHist, runHist, opened, caller, respLog>>

\* Variant: Run returns the model's response as it came.
RunResultAsReceived(resp, acc) == resp

\* The value Run returns on a complete event.
RunResult(resp, acc) == ModelResponse(resp.Event, resp.Data, acc)

\* ChatCompletion returns a complete event.
RunComplete(data) ==
    /\ UNCHANGED <<deriveVars, provider>>
    /\ pc = "run_model"
    /\ modelCalls < MaxModelCalls
    /\ modelCalls' = modelCalls + 1
    /\ callHist' = Messages
    /\ response' = ModelResponse("complete", data, <<>>)
    /\ Messages' = Append(Messages, Message("assistant", data, NoID, <<>>, <<>>, <<>>))
    /\ respLog' = Append(respLog, response')
    /\ result' = Outcome("ok", RunResult(response', toolCalls), <<>>)
    /\ pc' = "idle"
    /\ UNCHANGED <<Model, settings, Tools, isInit, _tools, modelTools, composed, reg,
                   toolCalls, idx, streamVars, executed, nextId, runs, runHist, opened, caller>>

\* Variant: the response is recorded before the event is rejected.
RunUnexpectedRecorded(resp) ==
    Append(Messages, Message("assistant", resp.Data, NoID, <<>>, <<>>, <<>>))

\* The history after ChatCompletion has returned an event that is neither
\* tool_call nor complete.
RunUnexpectedMessages(resp) == Messages

\* ChatCompletion returns any other event.
RunUnexpected(event, data) ==
    /\ UNCHANGED <<deriveVars, provider>>
    /\ pc = "run_model"
    /\ modelCalls < MaxModelCalls
    /\ modelCalls' = modelCalls + 1
    /\ callHist' = Messages
    /\ response' = ModelResponse(event, data, <<>>)
    /\ Messages' = RunUnexpectedMessages(response')
    /\ respLog' = Append(respLog, response')
    /\ result' = Outcome("err", NoResponse, <<"unexpected event type: ", event>>)
    /\ pc' = "idle"
    /\ UNCHANGED <<Model, settings, Tools, isInit, _tools, modelTools, composed, reg,
                   toolCalls, idx, streamVars, executed, nextId, runs, runHist, opened, caller>>

(***************************************************************************)
(* Agent.RunStream: the call itself, then the producer goroutine, one      *)
(* action per step.  Every send on the unbuffered channel ch blocks the    *)
(* producer until the caller receives (CallerReceive).                     *)
(***************************************************************************)
RunStreamStart(userMessage, media) ==
    /\ UNCHANGED <<deriveVars, provider>>
    /\ pc = "idle"
    /\ Model # "nil"
    /\ runs < MaxRuns
    /\ runs' = runs + 1
    /\ InitEffect
    /\ Messages' = AddMessage(InitMessages, "user", userMessage, media)
    /\ runHist' = Messages'
    /\ respLog' = <<>>
    /\ toolCalls' = <<>>
    /\ response' = NoResponse
    /\ idx' = 0
    /\ fullResponse' = <<>>
    /\ UNCHANGED respCount
    /\ pending' = <<>>
    /\ resume' = "idle"
    /\ IF Len(Messages') = 0
       THEN /\ pc' = "idle"
            /\ result' = Outcome("err", NoResponse, <<"no messages available for chat completion">>)
       ELSE /\ pc' = "stream_model"
            /\ result' = Outcome("streaming", NoResponse, <<>>)
    /\ ch' = <<>>
    /\ chClosed' = FALSE
    /\ opened' = <<>>
    /\ UNCHANGED <<executed, nextId, modelCalls, callHist, caller>>

\* Variant: an end event follows the error event.
StreamErrorForwardsEnd(err) ==
    <<ModelResponse("error", err, <<>>), ModelResponse("end", <<>>, <<>>)>>

\* The events RunStream forwards when ChatCompletionStream returns an error.
StreamErrorForwards(err) == <<ModelResponse("error", err, <<>>)>>

\* ChatCompletionStream returns an error: one error event, then return.
StreamModelError(err) ==
    /\ UNCHANGED <<deriveVars, provider>>
    /\ pc = "stream_model"
    /\ modelCalls < MaxModelCalls
    /\ modelCalls' = modelCalls + 1
    /\ callHist' = Messages
    /\ pending' = StreamErrorForwards(err)
    /\ resume' = "stream_close"
    /\ pc' = "stream_send"
    /\ UNCHANGED <<agentVars, response, toolCalls, idx, result, fullResponse, respCount,
                   ch, chClosed,
                   executed, nextId, runs, runHist, opened, caller, respLog>>

\* ChatCompletionStream returns the event channel respCh.
StreamModelOpen ==
    /\ UNCHANGED <<deriveVars, provider>>
    /\ pc = "stream_model"
    /\ modelCalls < MaxModelCalls
    /\ modelCalls' = modelCalls + 1
    /\ callHist' = Messages
    /\ fullResponse' = <<>>
    /\ toolCalls' = <<>>
    /\ opened' = Append(opened, Len(respLog))
    /\ pc' = "stream_recv"
    /\ UNCHANGED <<agentVars, response, idx, result, respCount, pending, resume, ch, chClosed,
                   executed, nextId, runs, runHist, caller, respLog>>

\* Variant: new text is put in front of the buffer.
BufferPrepend(buffered, data) == data \o buffered

\* The text buffered after an event carrying data has been taken in.
Buffer(buffered, data) == buffered \o data

\* Variant: the text of a tool_call event is flushed after the event.
ToolCallForwardsLate(resp) ==
    <<ModelResponse("tool_call", <<>>, resp.ToolCalls)>>
        \o (IF resp.Data # <<>> THEN <<ModelResponse("chunk", resp.Data, <<>>)>> ELSE <<>>)

\* The events RunStream forwards for a tool_call event of the model.
ToolCallForwards(resp) ==
    (IF resp.Data # <<>> THEN <<ModelResponse("chunk", resp.Data, <<>>)>> ELSE <<>>)
        \o <<ModelResponse("tool_call", <<>>, resp.ToolCalls)>>

\* respCh delivers a chunk event.
StreamChunk(data) ==
    /\ UNCHANGED <<deriveVars, provider>>
    /\ pc = "stream_recv"
    /\ respCount < MaxEvents
    /\ respCount' = respCount + 1
    /\ respLog' = Append(respLog, ModelResponse("chunk", data, <<>>))
    /\ fullResponse' = Buffer(fullResponse, data)
    /\ pending' = <<ModelResponse("chunk", data, <<>>)>>
    /\ resume' = "stream_recv"
    /\ pc' = "stream_send"
    /\ UNCHANGED <<agentVars, response, toolCalls, idx, result, ch, chClosed,
                   executed, nextId, runs, modelCalls, callHist, runHist, opened, caller>>

\* respCh delivers a tool_call event.
StreamToolCall(data, calls) ==
    /\ UNCHANGED <<deriveVars, provider>>
    /\ pc = "stream_recv"
    /\ respCount < MaxEvents
    /\ respCount' = respCount + 1
    /\ nextId' = nextId + Len(calls)
    /\ respLog' = Append(respLog, ModelResponse("tool_call", data, calls))
    /\ toolCalls' = calls
    /\ fullResponse' = IF data # <<>> THEN Buffer(fullResponse, data) ELSE fullResponse
    /\ pending' = ToolCallForwards(ModelResponse("tool_call", data, calls))
    /\ resume' = "stream_recv"
    /\ pc' = "stream_send"
    /\ UNCHANGED <<agentVars, response, idx, result, ch, chClosed,
                   executed, runs, modelCalls, callHist, runHist, opened, caller>>

\* What RunStream does with an event that is none of chunk, tool_call and
\* end: the position it continues at and the events it forwards.
StreamOtherNext(resp) == "stream_recv"
StreamOtherForwards(resp) == <<>>

\* respCh delivers an event of any other kind.
StreamOther(event, data) ==
    /\ UNCHANGED <<deriveVars, provider>>
    /\ pc = "stream_recv"
    /\ respCount < MaxEvents
    /\ respCount' = respCount + 1
    /\ pending' = StreamOtherForwards(ModelResponse(event, data, <<>>))
    /\ resume' = StreamOtherNext(ModelResponse(event, data, <<>>))
    /\ respLog' = Append(respLog, ModelResponse(event, data, <<>>))
    /\ pc' = IF pending' = <<>> THEN resume' ELSE "stream_send"
    /\ UNCHANGED <<agentVars, response, toolCalls, idx, result, fullResponse, ch, chClosed,
                   executed, nextId, runs, modelCalls, callHist, runHist, opened, caller>>

\* Variant: without ToolCalls the assistant message is not appended.
SettleMessagesLate(buffered, calls) ==
    IF Len(calls) > 0
    THEN Append(Messages, Message("assistant", buffered, NoID, calls, <<>>, <<>>))
    ELSE Messages

\* The history after the model stream has settled.
SettleMessages(buffered, calls) ==
    Append(Messages, Message("assistant", buffered, NoID, calls, <<>>, <<>>))

\* respCh delivers end, or is closed: the inner loop is left.  With
\* ToolCalls captured the turn is dispatched, without the run ends.
StreamSettle(how) ==
    /\ UNCHANGED <<deriveVars, provider>>
    /\ pc = "stream_recv"
    /\ Messages' = SettleMessages(fullResponse, toolCalls)
    /\ IF Len(toolCalls) > 0
       THEN /\ pc' = "stream_dispatch"
            /\ idx' = 1
            /\ UNCHANGED <<pending, resume>>
       ELSE /\ pending' = <<ModelResponse("end", <<>>, <<>>)>>
            /\ resume' = "stream_close"
            /\ pc' = "stream_send"
            /\ idx' = 0
    /\ UNCHANGED <<Model, settings, Tools, isInit, _tools, modelTools, composed, reg,
                   response, toolCalls, result, fullResponse, respCount, ch, chClosed,
                   logVars>>

\* Variant: the not-found message does not carry the id of its ToolCall.
StreamToolMessageNoID(toolCall, all) ==
    IF findTool(all, toolCall.Name) = 0
    THEN Message("tool", <<"Error: tool ", toolCall.Name, " not found">>, NoID,
                 <<>>, <<>>, <<>>)
    ELSE LET r == Execute(all[findTool(all, toolCall.Name)], toolCall.Arguments)
         IN  Message("tool", IF r.failed THEN <<"Error: ">> \o r.err ELSE r.result,
                     toolCall.ID, <<>>, <<>>, <<>>)

\* The message a dispatched ToolCall leaves in history (RunStream).
StreamToolMessage(toolCall, all) ==
    IF findTool(all, toolCall.Name) = 0
    THEN Message("tool", <<"Error: tool ", toolCall.Name, " not found">>, toolCall.ID,
                 <<>>, <<>>, <<>>)
    ELSE LET r == Execute(all[findTool(all, toolCall.Name)], toolCall.Arguments)
         IN  Message("tool", IF r.failed THEN <<"Error: ">> \o r.err ELSE r.result,
                     toolCall.ID, <<>>, <<>>, <<>>)

\* One iteration of the loop over the captured toolCalls.
StreamDispatch ==
    /\ UNCHANGED <<deriveVars, provider>>
    /\ pc = "stream_dispatch"
    /\ LET toolCall == NthCall(toolCalls, idx)
           all == GetAllTools(_tools, Tools)
       IN  /\ _tools' = all
           /\ reg' = RegistryGet(reg, _tools, Tools)
           /\ Messages' = Append(Messages, StreamToolMessage(toolCall, all))
           /\ executed' = Invoke(executed, toolCall, all)
    /\ IF idx < Len(toolCalls)
       THEN pc' = "stream_dispatch" /\ idx' = idx + 1
       ELSE pc' = "stream_model" /\ idx' = 0
    /\ UNCHANGED <<Model, settings, Tools, isInit, modelTools, composed,
                   response, toolCalls, result, streamVars,
                   nextId, runs, modelCalls, callHist, runHist, opened, caller, respLog>>

\* The caller receives the event the producer is blocked sending.
CallerReceive ==
    /\ UNCHANGED <<deriveVars, provider>>
    /\ pc = "stream_send"
    /\ ch' = Append(ch, Head(pending))
    /\ pending' = Tail(pending)
    /\ pc' = IF Len(pending) = 1 THEN resume ELSE "stream_send"
    /\ UNCHANGED <<agentVars, response, toolCalls, idx, result, fullResponse, respCount,
                   resume, chClosed, logVars>>

\* Variant: the producer gives up a blocked send and returns.
StreamCloseEarly ==
    /\ UNCHANGED <<deriveVars, provider>>
    /\ pc \in {"stream_close", "stream_send"}
    /\ chClosed' = TRUE
    /\ pc' = "idle"
    /\ result' = Outcome("closed", NoResponse, <<>>)
    /\ UNCHANGED <<agentVars, response, toolCalls, idx, fullResponse, respCount,
                   pending, resume, ch, logVars>>

\* The producer returns: the deferred close(ch) runs.
StreamClose ==
    /\ UNCHANGED <<deriveVars, provider>>
    /\ pc = "stream_close"
    /\ chClosed' = TRUE
    /\ pc' = "idle"
    /\ result' = Outcome("closed", NoResponse, <<>>)
    /\ UNCHANGED <<agentVars, response, toolCalls, idx, fullResponse, respCount,
                   pending, resume, ch, logVars>>

(***************************************************************************)
(* The specification.                                                      *)
(***************************************************************************)
Next ==
    \/ AgentInit
    \/ InitPanic
    \/ \E u \in UserInputs, m \in MediaInputs : RunStart(u, m)
    \/ \E e \in ModelErrors : RunModelError(e)
    \/ \E d \in Texts, c \in CallLists(nextId) : RunToolCall(d, c)
    \/ RunDispatch
    \/ \E d \in FinalTexts : RunComplete(d)
    \/ \E e \in UnexpectedEvents : RunUnexpected(e, <<"x">>)
    \/ \E u \in UserInputs, m \in MediaInputs : RunStreamStart(u, m)
    \/ \E e \in ModelErrors : StreamModelError(e)
    \/ StreamModelOpen
    \/ \E d \in Chunks : StreamChunk(d)
    \/ \E d \in StreamCallTexts, c \in CallLists(nextId) : StreamToolCall(d, c)
    \/ \E e \in IgnoredStreamEvents : StreamOther(e, <<"x">>)
    \/ \E how \in {"end", "closed"} : StreamSettle(how)
    \/ StreamDispatch
    \/ CallerReceive
    \/ StreamClose

Spec == Init /\ [][Next]_vars

(***************************************************************************)
(* Initialisation under changing settings: the caller may reassign the     *)
(* settings between operations; the runs are those that dispatch no tool.  *)
(***************************************************************************)
NextInit ==
    \/ AgentInit
    \/ InitPanic
    \/ \E s \in SettingsChanges : SetSettings(s)
    \/ \E u \in UserInputs, m \in MediaInputs : RunStart(u, m)
    \/ \E e \in ModelErrors : RunModelError(e)
    \/ \E d \in FinalTexts : RunComplete(d)
    \/ \E e \in UnexpectedEvents : RunUnexpected(e, <<"x">>)
    \/ \E u \in UserInputs, m \in MediaInputs : RunStreamStart(u, m)
    \/ \E e \in ModelErrors : StreamModelError(e)
    \/ StreamModelOpen
    \/ \E d \in Chunks : StreamChunk(d)
    \/ \E e \in IgnoredStreamEvents : StreamOther(e, <<"x">>)
    \/ \E how \in {"end", "closed"} : StreamSettle(how)
    \/ CallerReceive
    \/ StreamClose

SpecInit == Init /\ [][NextInit]_vars

(***************************************************************************)
(* The streaming path alone: every run is a RunStream run, and a tool_call *)
(* event of the model stream may or may not carry text.                    *)
(***************************************************************************)
NextStream ==
    \/ AgentInit
    \/ InitPanic
    \/ \E u \in UserInputs, m \in MediaInputs : RunStreamStart(u, m)
    \/ \E e \in ModelErrors : StreamModelError(e)
    \/ StreamModelOpen
    \/ \E d \in Chunks : StreamChunk(d)
    \/ \E d \in Texts, c \in CallLists(nextId) : StreamToolCall(d, c)
    \/ \E e \in IgnoredStreamEvents : StreamOther(e, <<"x">>)
    \/ \E how \in {"end", "closed"} : StreamSettle(how)
    \/ StreamDispatch
    \/ CallerReceive
    \/ StreamClose

SpecStream == Init /\ [][NextStream]_vars

(***************************************************************************)
(* A second task of the program calls AddMessage on the agent while a      *)
(* RunStream producer may be in flight: RunStream has returned ch to its    *)
(* caller, and nothing in the agent keeps that caller, or another           *)
(* goroutine, from using the agent.  The statement                          *)
(* agent.Messages = append(agent.Messages, m) reads the slice and then      *)
(* stores the extended slice, two steps other tasks can interleave with.    *)
(***************************************************************************)
CallerAddRead ==
    /\ UNCHANGED <<deriveVars, provider>>
    /\ caller.pc = "idle"
    /\ caller.adds < MaxAdds
    /\ isInit
    /\ caller' = [pc |-> "append", seen |-> Messages, adds |-> caller.adds + 1]
    /\ UNCHANGED <<agentVars, runVars, streamVars,
                   executed, nextId, runs, modelCalls, callHist, runHist, respLog, opened>>

CallerAddWrite(role, content, media) ==
    /\ UNCHANGED <<deriveVars, provider>>
    /\ caller.pc = "append"
    /\ Messages' = AddMessage(caller.seen, role, content, media)
    /\ caller' = [caller EXCEPT !.pc = "idle", !.seen = <<>>]
    /\ UNCHANGED <<Model, settings, Tools, isInit, _tools, modelTools, composed, reg,
                   runVars, streamVars,
                   executed, nextId, runs, modelCalls, callHist, runHist, respLog, opened>>

NextConcurrent ==
    \/ AgentInit
    \/ \E u \in UserInputs, m \in MediaInputs : RunStreamStart(u, m)
    \/ StreamModelOpen
    \/ \E d \in Chunks : StreamChunk(d)
    \/ \E d \in StreamCallTexts, c \in CallLists(nextId) : StreamToolCall(d, c)
    \/ \E how \in {"end", "closed"} : StreamSettle(how)
    \/ StreamDispatch
    \/ CallerReceive
    \/ StreamClose
    \/ CallerAddRead
    \/ CallerAddWrite("user", <<"And 3+3?">>, <<>>)

SpecConcurrent == Init /\ [][NextConcurrent]_vars

(***************************************************************************)
(* The registry on its own: the caller assigns the exported field Tools,   *)
(* calls GetAllTools and processTools directly, initialises the agent and  *)
(* runs it without tool turns.                                             *)
(***************************************************************************)
SetToolsField(t) ==
    /\ UNCHANGED <<deriveVars, provider>>
    /\ pc = "idle"
    /\ Tools # t
    /\ Tools' = t
    /\ UNCHANGED <<Model, settings, Messages, isInit, _tools, modelTools, composed, reg,
                   runVars, streamVars, logVars>>

CallGetAllTools ==
    /\ UNCHANGED <<deriveVars, provider>>
    /\ pc = "idle"
    /\ reg.gets < MaxGets
    /\ _tools' = GetAllTools(_tools, Tools)
    /\ reg' = RegistryGet(reg, _tools, Tools)
    /\ UNCHANGED <<Model, settings, Tools, Messages, isInit, modelTools, composed,
                   runVars, streamVars, logVars>>

CallProcessTools ==
    /\ UNCHANGED <<deriveVars, provider>>
    /\ pc = "idle"
    /\ reg.processes < MaxGets
    /\ reg' = RegistryProcess(reg, Tools)
    /\ UNCHANGED <<Model, settings, Tools, Messages, isInit, _tools, modelTools, composed,
                   runVars, streamVars, logVars>>

NextRegistry ==
    \/ AgentInit
    \/ InitPanic
    \/ \E t \in ToolsInputs : SetToolsField(t)
    \/ CallGetAllTools
    \/ CallProcessTools
    \/ \E u \in UserInputs, m \in MediaInputs : RunStart(u, m)
    \/ \E d \in FinalTexts : RunComplete(d)

SpecRegistry == Init /\ [][NextRegistry]_vars

(***************************************************************************)
(* The system message on its own: agents constructed with every            *)
(* combination of settings are initialised.                                *)
(***************************************************************************)
InitSystem ==
    /\ settings \in AllSettings
    /\ Tools = AgentTools
    /\ InitNoDerivation
    /\ InitFields

NextSystem ==
    \/ AgentInit
    \/ InitPanic

SpecSystem == InitSystem /\ [][NextSystem]_vars

(***************************************************************************)
(* The derivation on its own: CreateToolFromMethod is applied to a method, *)
(* and the Execute closure of the tool it returns to payloads.  A method    *)
(* that returns (value, error) may return an error.                         *)
(***************************************************************************)
InitDerive ==
    /\ settings \in SettingsInputs
    /\ Tools = AgentTools
    /\ provider = NoProvider
    /\ toolkit = NoToolkit
    /\ method \in Methods
    /\ derived = NotDerived
    /\ outcome = NoOutcome
    /\ Model = "model"
    /\ InitFields

CallCreateToolFromMethod ==
    /\ ~derived.done
    /\ derived' = [done |-> TRUE,
                   ok |-> CreateToolFromMethod(method).ok,
                   err |-> CreateToolFromMethod(method).err,
                   tool |-> CreateToolFromMethod(method).tool]
    /\ UNCHANGED <<agentVars, runVars, streamVars, logVars, toolkit, method, outcome, provider>>

CallExecute(payload, fails) ==
    /\ derived.done
    /\ derived.ok
    /\ outcome = NoOutcome
    /\ outcome' = [payload |-> payload, result |-> execute(derived.tool, payload, fails)]
    /\ UNCHANGED <<agentVars, runVars, streamVars, logVars, toolkit, method, derived, provider>>

NextDerive ==
    \/ CallCreateToolFromMethod
    \/ \E payload \in Payloads(derived.tool), fails \in BOOLEAN : CallExecute(payload, fails)

SpecDerive == InitDerive /\ [][NextDerive]_vars

(***************************************************************************)
(* An agent whose Tools hold a toolkit, alone or after a Tool: the agent is *)
(* initialised and asked for its tools.                                     *)
(***************************************************************************)
InitToolkit ==
    /\ settings \in SettingsInputs
    /\ provider = NoProvider
    /\ toolkit \in Toolkits
    /\ Tools \in { <<KitEntry(ToolkitTools(toolkit, 1))>>,
                    <<ToolEntry(CalculateTool), KitEntry(ToolkitTools(toolkit, 1))>> }
    /\ method = [AddMethod EXCEPT !.name = "", !.found = FALSE]
    /\ derived = NotDerived
    /\ outcome = NoOutcome
    /\ Model = "model"
    /\ InitFields

NextToolkit ==
    \/ AgentInit
    \/ CallGetAllTools
    \/ CallProcessTools

SpecToolkit == InitToolkit /\ [][NextToolkit]_vars

(***************************************************************************)
(* RunStream served by a streaming adapter: the events of each model       *)
(* stream are those the adapter makes of what the provider streams in       *)
(* answer to the request, in the adapter's order.                           *)
(***************************************************************************)
InitAdapter ==
    /\ settings \in SettingsInputs
    /\ Tools = AgentTools
    /\ provider \in Providers
    /\ toolkit = NoToolkit
    /\ method = [AddMethod EXCEPT !.name = "", !.found = FALSE]
    /\ derived = NotDerived
    /\ outcome = NoOutcome
    /\ Model = "model"
    /\ InitFields

\* The deltas the provider streams in answer to the request in flight, and
\* the number of events RunStream has taken from the adapter's channel.
CurrentStream == provider.turns[modelCalls]
Taken == Len(respLog) - opened[Len(opened)]

\* The adapter's next event when its map is visited in this order.
AdapterNext(order) == AdapterEvents(provider.adapter, CurrentStream, order)[Taken + 1]

\* The request is sent: the provider has an answer to it.
AdapterOpen ==
    /\ modelCalls < Len(provider.turns)
    /\ StreamModelOpen

AdapterSendsChunk ==
    /\ pc = "stream_recv"
    /\ AdapterNext(<<>>).Event = "chunk"
    /\ StreamChunk(AdapterNext(<<>>).Data)

AdapterSendsToolCall ==
    /\ pc = "stream_recv"
    /\ \E order \in RangeOrders(DOMAIN AdapterToolCalls(provider.adapter, CurrentStream,
                                                         NoToolCalls)) :
          /\ AdapterNext(order).Event = "tool_call"
          /\ StreamToolCall(AdapterNext(order).Data, AdapterNext(order).ToolCalls)

AdapterSendsEnd ==
    /\ pc = "stream_recv"
    /\ AdapterNext(<<>>).Event = "end"
    /\ StreamSettle("end")

NextAdapter ==
    \/ \E u \in UserInputs, m \in MediaInputs : RunStreamStart(u, m)
    \/ AdapterOpen
    \/ AdapterSendsChunk
    \/ AdapterSendsToolCall
    \/ AdapterSendsEnd
    \/ StreamDispatch
    \/ CallerReceive
    \/ StreamClose

SpecAdapter == InitAdapter /\ [][NextAdapter]_vars

(***************************************************************************)
(* The turn loops under a model that answers and a caller that drains.     *)
(* The model answers every call, delivers every stream to its end, and      *)
(* asks for tools only while another call to it remains: its last answer    *)
(* is a complete event, an unexpected event or a failure.  The goroutines   *)
(* of the program are scheduled, and the caller of RunStream keeps          *)
(* receiving.  What the model says beside that is immaterial here: it       *)
(* streams one text and asks for the calculate tool.                        *)
(***************************************************************************)
LiveCalls == { c \in CallLists(nextId) : \A i \in 1..Len(c) : c[i].Name = "calculate" }

CallerRuns ==
    /\ modelCalls < MaxModelCalls
    /\ \E u \in UserInputs, m \in MediaInputs : RunStart(u, m) \/ RunStreamStart(u, m)

ModelAnswers ==
    \/ \E e \in ModelErrors : RunModelError(e)
    \/ /\ modelCalls + 1 < MaxModelCalls
       /\ \E c \in LiveCalls : RunToolCall(<<>>, c)
    \/ \E d \in FinalTexts : RunComplete(d)
    \/ \E e \in UnexpectedEvents : RunUnexpected(e, <<"x">>)
    \/ \E e \in ModelErrors : StreamModelError(e)
    \/ StreamModelOpen

ModelStreams ==
    \/ StreamChunk(<<"a">>)
    \/ \E c \in LiveCalls :
          /\ c # <<>> => modelCalls < MaxModelCalls
          /\ StreamToolCall(<<>>, c)
    \/ \E how \in {"end", "closed"} : StreamSettle(how)

NextLive ==
    \/ CallerRuns
    \/ ModelAnswers
    \/ ModelStreams
    \/ RunDispatch
    \/ StreamDispatch
    \/ CallerReceive
    \/ StreamClose

SpecLive ==
    /\ Init
    /\ [][NextLive]_vars
    /\ WF_vars(ModelAnswers)
    /\ WF_vars(ModelStreams)
    /\ WF_vars(RunDispatch)
    /\ WF_vars(StreamDispatch)
    /\ WF_vars(CallerReceive)
    /\ WF_vars(StreamClose)

(***************************************************************************)
(* Vocabulary of the properties.                                           *)
(***************************************************************************)
Last(s) == s[Len(s)]

\* A tool-dispatch loop is under way, over the list TurnCalls.
Dispatching == pc \in {"run_dispatch", "stream_dispatch"}
TurnCalls == IF pc = "run_dispatch" THEN response.ToolCalls ELSE toolCalls
ModelPosition == IF pc = "run_dispatch" THEN "run_model" ELSE "stream_model"

\* All ToolCalls the model has requested in the current run, in order.
RECURSIVE CallsOf(_)
CallsOf(log) == IF log = <<>> THEN <<>> ELSE Head(log).ToolCalls \o CallsOf(Tail(log))

\* The concatenated text of the chunk events among events.
RECURSIVE ChunkText(_)
ChunkText(events) ==
    IF events = <<>> THEN <<>>
    ELSE (IF Head(events).Event = "chunk" THEN Head(events).Data ELSE <<>>)
            \o ChunkText(Tail(events))

\* Positions <<k, i>> of the ToolCalls carried by messages, and positions of
\* the tool-role messages.
CallSites ==
    UNION { { <<k, i>> : i \in 1..Len(Messages[k].ToolCalls) } : k \in 1..Len(Messages) }
ToolResults == { j \in 1..Len(Messages) : Messages[j].Role = "tool" }
SystemMessages == { j \in 1..Len(Messages) : Messages[j].Role = "system" }

NotFoundContent(name) == <<"Error: tool ", name, " not found">>
ToolResult(content, id) == Message("tool", content, id, <<>>, <<>>, <<>>)

(***************************************************************************)
(* Properties of the turn loops.                                           *)
(***************************************************************************)
\* C1: in Run and RunStream the tool messages of a turn follow the turn's
\* assistant message immediately and in the order of its ToolCalls: the i-th
\* message after it is a tool message carrying the id of the i-th ToolCall
\* (while the turn is still being dispatched, the calls from idx on are the
\* ones not yet answered), and the assistant message carries the list the
\* loop walks.
C1_ToolResultsInCallOrder ==
    /\ \A k \in 1..Len(Messages) :
          \A i \in 1..Len(Messages[k].ToolCalls) :
             IF k + i <= Len(Messages)
             THEN /\ Messages[k + i].Role = "tool"
                  /\ Messages[k + i].ToolCallID = Messages[k].ToolCalls[i].ID
             ELSE Dispatching /\ k = Len(Messages) - (idx - 1) /\ i >= idx
    /\ Dispatching =>
          /\ Len(Messages) >= idx
          /\ Messages[Len(Messages) - (idx - 1)].Role = "assistant"
          /\ Messages[Len(Messages) - (idx - 1)].ToolCalls = TurnCalls

\* A turn of two calls, the first for an unknown tool and the second for a
\* failing one, has been dispatched completely.
C1_Witness ==
    \E k \in 1..Len(Messages) :
       /\ Len(Messages[k].ToolCalls) = 2
       /\ Messages[k].ToolCalls[1].Name = "unknown"
       /\ Messages[k].ToolCalls[2].Name = "add"
       /\ k + 2 <= Len(Messages)
       /\ ~Dispatching

\* C2: once Run has returned successfully or RunStream has closed its
\* channel, every ToolCall of a message in history has exactly one later
\* tool message with its id, and every tool message has exactly one earlier
\* ToolCall with its id.
C2_CallsMatchResults ==
    (pc = "idle" /\ result.kind \in {"ok", "closed"}) =>
       /\ \A site \in CallSites :
             Cardinality({ j \in ToolResults :
                             /\ j > site[1]
                             /\ Messages[j].ToolCallID = Messages[site[1]].ToolCalls[site[2]].ID }) = 1
       /\ \A j \in ToolResults :
             Cardinality({ site \in CallSites :
                             /\ site[1] < j
                             /\ Messages[site[1]].ToolCalls[site[2]].ID = Messages[j].ToolCallID }) = 1

\* A streaming run that dispatched two calls, one of them for an unknown
\* tool, has ended and closed its channel.
C2_Witness ==
    /\ pc = "idle"
    /\ result.kind = "closed"
    /\ Last(ch).Event = "end"
    /\ Cardinality(ToolResults) = 2
    /\ \E j \in ToolResults : Messages[j].Content = NotFoundContent("unknown")

\* C3: dispatching a ToolCall whose name matches no registered tool appends
\* the not-found tool message with the call's id, invokes no executor,
\* returns nothing to the caller, and goes on to the next call of the turn
\* or, after the last one, to the next model call.
C3_NotFoundIsRecovered ==
    [][ (Dispatching /\ TurnCalls[idx].Name = "unknown") =>
          /\ Messages' = Append(Messages,
                                ToolResult(NotFoundContent("unknown"), TurnCalls[idx].ID))
          /\ executed' = executed
          /\ result' = result
          /\ IF idx < Len(TurnCalls)
             THEN pc' = pc /\ idx' = idx + 1
             ELSE pc' = ModelPosition ]_vars

\* In a streaming run an unknown tool was answered with not-found, the next
\* call of the turn was executed, and the model has been called again.
C3_Witness ==
    /\ pc = "stream_recv"
    /\ modelCalls = 2
    /\ Len(Messages) >= 3
    /\ Messages[Len(Messages) - 1] = ToolResult(NotFoundContent("unknown"), CallID(1))
    /\ Messages[Len(Messages)] = ToolResult(<<"4">>, CallID(2))
    /\ executed = <<CallID(2)>>

\* C4: dispatching a ToolCall whose executor fails appends a tool message
\* with the call's id and the error text as content, returns nothing to the
\* caller, and goes on to the next call of the turn or, after the last one,
\* to the next model call.
C4_ExecutorFailureIsRecovered ==
    [][ (Dispatching /\ TurnCalls[idx].Name = "add" /\ TurnCalls[idx].Arguments = EmptyArgs) =>
          /\ Messages' = Append(Messages,
                                ToolResult(<<"Error: ", "missing required parameter: ", "a">>,
                                           TurnCalls[idx].ID))
          /\ executed' = Append(executed, TurnCalls[idx].ID)
          /\ result' = result
          /\ IF idx < Len(TurnCalls)
             THEN pc' = pc /\ idx' = idx + 1
             ELSE pc' = ModelPosition ]_vars

\* Run has returned successfully although the first call of a turn failed;
\* the second call of that turn was still dispatched.
C4_Witness ==
    /\ pc = "idle"
    /\ result.kind = "ok"
    /\ \E j \in ToolResults :
          /\ Messages[j] = ToolResult(<<"Error: ", "missing required parameter: ", "a">>,
                                      CallID(1))
          /\ j + 1 \in ToolResults
          /\ Messages[j + 1].ToolCallID = CallID(2)

\* C5: when Run has returned a failure of chatCompletion, history is the
\* history that was handed to the failing call, and everything the run had
\* appended before (the user message first) is still there.
C5_ModelFailureLeavesHistory ==
    (pc = "idle" /\ result.kind = "err" /\ result.err \in ModelErrors) =>
       /\ Messages = callHist
       /\ IsPrefix(runHist, Messages)
       /\ Last(runHist).Role = "user"

\* chatCompletion failed on the second call of a run, after a turn with a
\* tool call.
C5_Witness ==
    /\ pc = "idle"
    /\ result.kind = "err"
    /\ result.err \in ModelErrors
    /\ Len(Messages) >= Len(runHist) + 2
    /\ Last(Messages).Role = "tool"

\* C6: the system message is composed at most once per agent, and on an
\* initialized agent whose composed content is non-empty history holds
\* exactly one system message, at index 1, with the content composed at the
\* first Init.
C6_InitIdempotent ==
    /\ Len(composed) <= 1
    /\ (isInit /\ Len(composed) = 1 /\ composed[1] # <<>>) =>
          /\ SystemMessages = {1}
          /\ Messages[1].Content = composed[1]

\* A second run is under way (Init has been called at least twice) after the
\* settings were changed to compose a different, non-empty system message.
C6_Witness ==
    /\ runs = 2
    /\ pc \in {"run_model", "stream_recv"}
    /\ Len(composed) = 1
    /\ composed[1] # <<>>
    /\ systemMessageContent(settings) # <<>>
    /\ systemMessageContent(settings) # composed[1]

\* C7: in a RunStream run in which the model requested no tool call, once
\* the end event is forwarded the concatenation of the forwarded chunk texts
\* is the content of the final assistant message.
C7_ChunksRoundTrip ==
    (ch # <<>> /\ Last(ch).Event = "end" /\ CallsOf(respLog) = <<>>) =>
       /\ Last(Messages).Role = "assistant"
       /\ Last(Messages).Content = ChunkText(ch)

\* A run without tool calls has closed after forwarding the chunks a and b.
C7_Witness ==
    /\ chClosed
    /\ Last(ch).Event = "end"
    /\ CallsOf(respLog) = <<>>
    /\ ChunkText(ch) = <<"a", "b">>

\* C8: the result Run returns on success lists every ToolCall the model
\* requested during the run, once and in request order.
C8_ResultListsAllCalls ==
    (pc = "idle" /\ result.kind = "ok") => result.response.ToolCalls = CallsOf(respLog)

\* C9: when chatCompletion returns an event that is neither tool_call nor
\* complete, Run appends nothing, invokes no executor and returns a failure.
C9_UnexpectedEventIsFatal ==
    [][ (/\ pc = "run_model"
         /\ Len(respLog') = Len(respLog) + 1
         /\ respLog'[Len(respLog')].Event \notin {"tool_call", "complete"}) =>
          /\ Messages' = Messages
          /\ executed' = executed
          /\ pc' = "idle"
          /\ result'.kind = "err"
          /\ result'.err = <<"unexpected event type: ", respLog'[Len(respLog')].Event>> ]_vars

\* Run has failed on a chunk event received after a turn with a tool call.
C9_Witness ==
    /\ pc = "idle"
    /\ result.kind = "err"
    /\ result.err = <<"unexpected event type: ", "chunk">>
    /\ Last(respLog).Event = "chunk"
    /\ Len(Messages) >= Len(runHist) + 2
    /\ Messages = callHist

\* C10: in a RunStream run whose model stream delivered an event that is
\* none of chunk, tool_call and end, the caller receives no end event.
C10_UnexpectedStreamEventIsFatal ==
    ~ ( /\ ch # <<>>
        /\ Last(ch).Event = "end"
        /\ \E i \in 1..Len(respLog) : respLog[i].Event \in IgnoredStreamEvents )

\* The events of one kind among events, the ids of the ToolCalls events
\* carry, and the events RunStream has handed to ch in the current run: those
\* the caller received, then those the producer is blocked sending.
EventsOf(events, kind) == SelectSeq(events, LAMBDA e : e.Event = kind)
IdsOf(events) ==
    UNION { { events[p].ToolCalls[i].ID : i \in 1..Len(events[p].ToolCalls) } :
            p \in 1..Len(events) }
Forwarded == ch \o pending
StreamRun == result.kind \in {"streaming", "closed"}

\* C11: in a RunStream run the tool_call events forwarded to the caller are,
\* in order, the tool_call events the model stream delivered, each carrying
\* the same ToolCall list and no text; when the delivered event carried text
\* the event forwarded right before it is a chunk with that text; and a tool
\* of the run is dispatched (executed, or answered by a tool message) only
\* after the caller has received the tool_call event that lists it.
C11_ToolCallForwarded ==
    StreamRun =>
       LET tcIn == EventsOf(respLog, "tool_call")
           tcAt == { p \in 1..Len(Forwarded) : Forwarded[p].Event = "tool_call" }
           Nth(p) == Cardinality({ q \in tcAt : q <= p })
       IN  /\ Cardinality(tcAt) = Len(tcIn)
           /\ \A p \in tcAt :
                 /\ Forwarded[p] = ModelResponse("tool_call", <<>>, tcIn[Nth(p)].ToolCalls)
                 /\ tcIn[Nth(p)].Data # <<>> =>
                       /\ p > 1
                       /\ Forwarded[p - 1] = ModelResponse("chunk", tcIn[Nth(p)].Data, <<>>)
           /\ pc = "stream_dispatch" =>
                 /\ pending = <<>>
                 /\ Last(EventsOf(ch, "tool_call")).ToolCalls = toolCalls
           /\ \A j \in (Len(runHist) + 1)..Len(Messages) :
                 Messages[j].Role = "tool" => Messages[j].ToolCallID \in IdsOf(ch)
           /\ \A k \in 1..Len(executed) :
                 executed[k] \in IdsOf(respLog) => executed[k] \in IdsOf(ch)

\* The caller has received the text of a tool_call event as a chunk and then
\* the event itself with its two calls, and both calls have been dispatched.
C11_Witness ==
    /\ StreamRun
    /\ pc = "stream_model"
    /\ Len(ch) = 2
    /\ ch[1] = ModelResponse("chunk", <<"4">>, <<>>)
    /\ ch[2].Event = "tool_call"
    /\ Len(ch[2].ToolCalls) = 2
    /\ Last(Messages).Role = "tool"
    /\ Len(executed) >= 1

\* C12: in a RunStream run at most one end event is forwarded, and it is the
\* last event forwarded; when it is forwarded no ToolCalls are captured and
\* the last message of history is already the final assistant message, whose
\* content is the buffered text; a closed channel has delivered everything,
\* ending with the end event (or with the error event of a failed model
\* call); and the step after the caller received the last event closes the
\* channel, changing neither the events received nor history.
C12_EndIsLast ==
    /\ [](StreamRun =>
            LET ends == { p \in 1..Len(Forwarded) : Forwarded[p].Event = "end" }
            IN  /\ Cardinality(ends) <= 1
                /\ ends # {} =>
                      /\ ends = {Len(Forwarded)}
                      /\ toolCalls = <<>>
                      /\ Last(Messages) = Message("assistant", fullResponse, NoID, <<>>, <<>>, <<>>)
                      /\ pc \in {"stream_send", "stream_close", "idle"}
                /\ chClosed =>
                      /\ pending = <<>>
                      /\ ch # <<>>
                      /\ Last(ch).Event \in {"end", "error"}
                      /\ Last(ch).Event = "end" => Cardinality(ends) = 1)
    /\ [][ pc = "stream_close" =>
             /\ chClosed'
             /\ ch' = ch
             /\ Messages' = Messages ]_vars

\* A run with a tool turn has ended: the caller received the tool_call event,
\* later the chunk a and the end event, the channel is closed and the final
\* assistant message holds the text a.
C12_Witness ==
    /\ chClosed
    /\ Len(ch) >= 3
    /\ Last(ch).Event = "end"
    /\ ch[Len(ch) - 1] = ModelResponse("chunk", <<"a">>, <<>>)
    /\ EventsOf(ch, "tool_call") # <<>>
    /\ Last(Messages).Content = <<"a">>

\* C13: in Run and RunStream every model call is handed the current
\* history, and for every call after the first of its run that history is the
\* history of the previous call, then one assistant message carrying the
\* ToolCalls the model requested in that turn, then exactly one tool message
\* per ToolCall, in order and with its id, and nothing else.
C13_NextCallExtendsHistory ==
    [][ modelCalls' # modelCalls =>
          /\ pc \in {"run_model", "stream_model"}
          /\ callHist' = Messages
          /\ Messages # runHist =>
                LET a == Len(callHist) + 1
                IN  /\ IsPrefix(callHist, Messages)
                    /\ Len(Messages) >= a
                    /\ Messages[a].Role = "assistant"
                    /\ EventsOf(respLog, "tool_call") # <<>>
                    /\ Messages[a].ToolCalls = Last(EventsOf(respLog, "tool_call")).ToolCalls
                    /\ Len(Messages) = a + Len(Messages[a].ToolCalls)
                    /\ \A i \in 1..Len(Messages[a].ToolCalls) :
                          /\ Messages[a + i].Role = "tool"
                          /\ Messages[a + i].ToolCallID = Messages[a].ToolCalls[i].ID ]_vars

\* The second model call of a run has been made with a history that extends
\* the first call's by an assistant message and two tool messages.
C13_Witness ==
    /\ modelCalls = 2
    /\ pc \in {"idle", "stream_recv"}
    /\ result.kind \in {"ok", "streaming"}
    /\ callHist # runHist
    /\ Len(callHist) = Len(runHist) + 3
    /\ Len(callHist[Len(runHist) + 1].ToolCalls) = 2

\* C15: while the producer of RunStream has an event to send, the only step
\* that can happen is the caller receiving that event: no model call, no tool
\* execution, no append to history and no close of the channel happen until
\* then, so a caller that stops receiving leaves the producer blocked for
\* good; and the caller receives an event only from a blocked send.
C15_ProducerBlocksOnSend ==
    /\ [](pc = "stream_send" => (pending # <<>> /\ ~chClosed))
    /\ [][ pc = "stream_send" =>
             /\ ch' = Append(ch, Head(pending))
             /\ pending' = Tail(pending)
             /\ Messages' = Messages
             /\ modelCalls' = modelCalls
             /\ executed' = executed
             /\ chClosed' = chClosed ]_vars
    /\ [][ (ch' # ch /\ ch' # <<>>) => pc = "stream_send" ]_vars

\* The producer is blocked between the two sends of a tool_call event: the
\* caller has received the chunk and not yet the tool_call event.
C15_Witness ==
    /\ pc = "stream_send"
    /\ ch = <<ModelResponse("chunk", <<"4">>, <<>>)>>
    /\ Len(pending) = 1
    /\ pending[1].Event = "tool_call"
    /\ Len(pending[1].ToolCalls) >= 1
    /\ Last(Messages).Role = "user"

\* A model turn is a text and a list of ToolCalls.  The turns of a finished
\* Run are its responses; the turns of a finished RunStream run are its
\* model streams, the text of a stream being the concatenated text of its
\* events and its calls those of its tool_call event.
Turn(text, calls) == [text |-> text, calls |-> calls]
RunTurns == [i \in 1..Len(respLog) |-> Turn(respLog[i].Data, respLog[i].ToolCalls)]
StreamEvents(i) ==
    SubSeq(respLog, opened[i] + 1, IF i < Len(opened) THEN opened[i + 1] ELSE Len(respLog))
RECURSIVE TextOf(_)
TextOf(events) == IF events = <<>> THEN <<>> ELSE Head(events).Data \o TextOf(Tail(events))
StreamTurns == [i \in 1..Len(opened) |-> Turn(TextOf(StreamEvents(i)), CallsOf(StreamEvents(i)))]

\* The turns were delivered in the shapes both paths share: to Run as
\* tool_call responses with calls and a last complete response, to RunStream
\* as streams of chunks followed by at most one tool_call event.
RunWellFormed ==
    \A i \in 1..Len(respLog) :
       IF i < Len(respLog)
       THEN respLog[i].Event = "tool_call" /\ respLog[i].ToolCalls # <<>>
       ELSE respLog[i].Event = "complete"
StreamWellFormed ==
    \A i \in 1..Len(opened) :
       \A p \in 1..Len(StreamEvents(i)) :
          \/ StreamEvents(i)[p].Event = "chunk"
          \/ StreamEvents(i)[p].Event = "tool_call" /\ p = Len(StreamEvents(i))

\* The history the blocking path leaves for a sequence of turns: per turn the
\* assistant message with the turn's text and calls, then the tool message
\* of each call, built as Run builds them.
TurnMessages(t, all) ==
    <<Message("assistant", t.text, NoID, t.calls, <<>>, <<>>)>>
        \o [i \in 1..Len(t.calls) |-> RunToolMessage(t.calls[i], all)]
BlockingHistory(start, turns, all) ==
    start \o Concat([i \in 1..Len(turns) |-> TurnMessages(turns[i], all)])

\* C14: for the same history at the start of the run, the same tools and the
\* same sequence of model turns, Run and RunStream leave the same history:
\* when Run has returned its result, and when RunStream has forwarded end and
\* closed its channel, history is the blocking path's history for the turns
\* the model delivered.
C14_StreamMatchesBlocking ==
    /\ (pc = "idle" /\ result.kind = "ok" /\ RunWellFormed) =>
          Messages = BlockingHistory(runHist, RunTurns, _tools)
    /\ (chClosed /\ Last(ch).Event = "end" /\ StreamWellFormed) =>
          Messages = BlockingHistory(runHist, StreamTurns, _tools)

\* A streaming run of two turns has closed: the first turn came as the chunk
\* a and a tool_call event with the text 4, the second as an empty stream.
C14_Witness ==
    /\ chClosed
    /\ Last(ch).Event = "end"
    /\ StreamWellFormed
    /\ Len(opened) = 2
    /\ StreamTurns[1].text = <<"a", "4">>
    /\ Len(StreamTurns[1].calls) >= 1
    /\ StreamTurns[2] = Turn(<<>>, <<>>)

\* C16: while one task is between reading Messages and storing the extended
\* slice, no other task changes Messages.
C16_ExclusiveHistory ==
    [][ (caller.pc = "append" /\ caller'.pc = "append") => Messages' = Messages ]_vars

\* C17: the list GetAllTools returns holds no two tools of the same name.
C17_NamesUnique ==
    reg.gets > 0 =>
       \A i, j \in 1..Len(reg.last) : reg.last[i].Name = reg.last[j].Name => i = j

\* C18: every GetAllTools call after the first returns the list the first
\* call returned and invokes no toolkit's Tools().
C18_ComputedOnce ==
    [][ (reg'.gets = reg.gets + 1 /\ reg.gets > 0) =>
          /\ reg'.last = reg.first
          /\ reg'.kitCalls = reg.kitCalls ]_vars

\* The tools the k-th entry of a Tools list stands for, and the number of
\* tools the entries before the k-th stand for.
EntryTools(entries, k) == IF entries[k].isTool THEN <<entries[k].kit[1]>> ELSE entries[k].kit
RECURSIVE EntryOffset(_, _)
EntryOffset(entries, k) ==
    IF k = 1 THEN 0 ELSE EntryOffset(entries, k - 1) + Len(EntryTools(entries, k - 1))

C20_ToolsHandedAtInit ==
    [][ /\ (~isInit /\ isInit') =>
             /\ modelTools'.init
             /\ IF Len(Tools) = 0
                THEN modelTools'.calls = 0 /\ ~modelTools'.set
                ELSE /\ modelTools'.calls = 1
                     /\ modelTools'.set
                     /\ modelTools'.afterInit
                     /\ modelTools'.tools = GetAllTools(_tools, Tools)
                     /\ modelTools'.tools = reg'.last
                     /\ modelTools'.tools = _tools'
        /\ (isInit \/ ~isInit') => modelTools' = modelTools
        /\ modelCalls' # modelCalls => isInit ]_vars

\* The model has been called on an agent whose tools were handed over from
\* the cache: Agent.Tools had been changed after an earlier GetAllTools call.
C20_Witness ==
    /\ isInit
    /\ modelCalls >= 1
    /\ modelTools.calls = 1
    /\ modelTools.tools # <<>>
    /\ modelTools.tools # processTools(Tools)


\* C27: on an agent without a model, Init (called directly or by Run or
\* RunStream) panics before it changes anything: the agent stays
\* uninitialised, its history stays empty, the model is neither initialised
\* nor called nor handed tools, and no tool is executed; the panic is the
\* only thing such an agent ever does.
C27_NoModelInitPanics ==
    /\ [](Model = "nil" =>
            /\ ~isInit
            /\ Messages = <<>>
            /\ modelCalls = 0
            /\ executed = <<>>
            /\ modelTools = NoModelTools
            /\ _tools = <<>>
            /\ pc = "idle"
            /\ ch = <<>>
            /\ result.kind \in {"none", "panic"})
    /\ [][ Model = "nil" =>
             /\ result'.kind = "panic"
             /\ result'.err = <<"Agent must have a model">>
             /\ UNCHANGED <<agentVars, pc, response, toolCalls, idx, streamVars, logVars>> ]_vars

\* Init has panicked on an agent without a model.
C27_Witness ==
    /\ Model = "nil"
    /\ result.kind = "panic"
    /\ ~isInit
    /\ Messages = <<>>


\* C26: the history is append-only: at every step of Init, of AddMessage
\* (called by Run and RunStream for the user message), of Run and of the
\* RunStream producer, the history before the step is a prefix of the
\* history after it, and a step that leaves its length leaves it as it is.
C26_HistoryAppendOnly ==
    [][ /\ IsPrefix(Messages, Messages')
        /\ Len(Messages') = Len(Messages) => Messages' = Messages ]_vars

\* Init, AddMessage and the loops of two runs have each appended to the
\* history: a system message, a user message, an assistant message with its
\* tool message, the final assistant message, and the user message of a
\* second run after them.
C26_Witness ==
    /\ runs = 2
    /\ Len(Messages) = 6
    /\ Messages[1].Role = "system"
    /\ Messages[2].Role = "user"
    /\ Messages[3].Role = "assistant"
    /\ Messages[4].Role = "tool"
    /\ Messages[5].Role = "assistant"
    /\ Messages[6].Role = "user"


\* The ToolCalls of the current run whose tool the registry holds.
FoundCalls ==
    SelectSeq(CallsOf(respLog),
              LAMBDA c : findTool(GetAllTools(_tools, Tools), c.Name) # 0)

\* C28: when ChatCompletion returns complete, the assistant message Run
\* appends carries the response text and the ToolCalls accumulated across
\* the run, and the record Run returns has that same text and those same
\* ToolCalls.
C28_FinalMessageCarriesCalls ==
    [][ (pc = "run_model" /\ pc' = "idle" /\ result'.kind = "ok") =>
          /\ Messages' = Append(Messages, Last(Messages'))
          /\ Last(Messages').Role = "assistant"
          /\ Last(Messages').Content = response'.Data
          /\ Last(Messages').ToolCalls = toolCalls
          /\ result'.response.Data = Last(Messages').Content
          /\ result'.response.ToolCalls = Last(Messages').ToolCalls ]_vars

\* C28, amended: when ChatCompletion returns complete, Run appends one
\* assistant message that carries the response text and no ToolCalls; what
\* Run returns is the model's response with its ToolCalls replaced by the
\* list the run has accumulated, which holds the dispatched ToolCalls whose
\* tool was found, in order.
C28_FinalMessageAndResult ==
    [][ (pc = "run_model" /\ pc' = "idle" /\ result'.kind = "ok") =>
          /\ Messages' = Append(Messages, Last(Messages'))
          /\ Last(Messages') = Message("assistant", response'.Data, NoID, <<>>, <<>>, <<>>)
          /\ response'.Event = "complete"
          /\ result'.response = ModelResponse("complete", response'.Data, toolCalls)
          /\ toolCalls = FoundCalls ]_vars

\* Run has returned after a turn that executed a tool: the returned record
\* lists the ToolCall, the final assistant message in history lists none.
C28_Witness ==
    /\ pc = "idle"
    /\ result.kind = "ok"
    /\ result.response.ToolCalls # <<>>
    /\ Last(Messages).Role = "assistant"
    /\ Last(Messages).Content = result.response.Data
    /\ Last(Messages).ToolCalls = <<>>


\* The ids of the ToolCalls of calls whose tool the registry holds, in order,
\* and the invocations among log that belong to calls.
FoundIds(calls) ==
    LET found == SelectSeq(calls, LAMBDA c : findTool(GetAllTools(_tools, Tools), c.Name) # 0)
    IN  [k \in 1..Len(found) |-> found[k].ID]
InvokedOf(log, calls) ==
    SelectSeq(log, LAMBDA id : \E i \in 1..Len(calls) : calls[i].ID = id)

\* C29: within a turn of Run or RunStream the executors are invoked one at a
\* time and in list order, once for each ToolCall whose tool is found and
\* never for another: while the loop stands at call idx the invocations of
\* the turn are those of the found calls before idx, a step invokes at most
\* one executor, that of call idx, and appends its tool message in the same
\* step, and it does so only after the tool message of call idx - 1 has been
\* appended; when the turn is over every found call has been invoked once.
C29_ExecutorsOneAtATime ==
    /\ [](Dispatching =>
            InvokedOf(executed, TurnCalls) = FoundIds(SubSeq(TurnCalls, 1, idx - 1)))
    /\ [][ executed' # executed =>
             /\ Dispatching
             /\ findTool(GetAllTools(_tools, Tools), TurnCalls[idx].Name) # 0
             /\ executed' = Append(executed, TurnCalls[idx].ID)
             /\ Messages' = Append(Messages, Last(Messages'))
             /\ Last(Messages').Role = "tool"
             /\ Last(Messages').ToolCallID = TurnCalls[idx].ID
             /\ idx > 1 =>
                   /\ Last(Messages).Role = "tool"
                   /\ Last(Messages).ToolCallID = TurnCalls[idx - 1].ID ]_vars
    /\ [][ (Dispatching /\ ~Dispatching') =>
             /\ idx = Len(TurnCalls)
             /\ InvokedOf(executed', TurnCalls) = FoundIds(TurnCalls) ]_vars

\* A turn of two calls for registered tools is over: both executors have
\* been invoked, the first call's before the second's.
C29_Witness ==
    /\ ~Dispatching
    /\ \E k \in 1..Len(Messages) :
          /\ Len(Messages[k].ToolCalls) = 2
          /\ Messages[k].ToolCalls[1].Name = "calculate"
          /\ Messages[k].ToolCalls[2].Name = "add"
          /\ k + 2 <= Len(Messages)
          /\ InvokedOf(executed, Messages[k].ToolCalls)
                = <<Messages[k].ToolCalls[1].ID, Messages[k].ToolCalls[2].ID>>


\* A block of the composed system message: text between an opening and a
\* closing line, nothing when the text is empty.
Wrapped(open, text, close) == IF text = <<>> THEN <<>> ELSE <<open>> \o text \o <<close>>

\* C30: the system message Init inserts is the raw SystemMessage override when
\* one is supplied, and otherwise the description, goal, role and
\* instructions blocks in that order, each left out when its setting is
\* empty, the instructions being a string or a bulleted list; the markdown
\* directive block follows as the last block exactly when Markdown is
\* enabled.  (An empty composition inserts no message.)
C30_SystemMessageComposition ==
    [][ (~isInit /\ isInit') =>
          LET s == settings
              instr == s.Instructions
              expected ==
                  (IF s.SystemMessage # <<>> THEN s.SystemMessage
                   ELSE (IF s.Description = <<>> THEN <<>> ELSE s.Description \o <<"\n\n">>)
                       \o Wrapped("<your_goal>\n", s.Goal, "\n</your_goal>\n\n")
                       \o Wrapped("<your_role>\n", s.Role, "\n</your_role>\n\n")
                       \o (IF instr.type = "string" /\ instr.text # <<>>
                           THEN Wrapped("<instructions>\n", instr.text, "\n</instructions>\n\n")
                           ELSE IF instr.type = "[]string"
                           THEN Wrapped("<instructions>", Bullets(instr.list),
                                        "\n</instructions>\n\n")
                           ELSE <<>>))
                  \o (IF s.Markdown
                      THEN <<"<additional_information>", "\n- ",
                             "Use markdown to format your answers.",
                             "\n</additional_information>\n\n">>
                      ELSE <<>>)
          IN  /\ Messages = <<>>
              /\ IF expected = <<>> THEN Messages' = <<>>
                 ELSE Messages' = <<Message("system", expected, NoID, <<>>, <<>>, <<>>)>> ]_vars


\* Init has composed the message of TestGetSystemMessage's last case:
\* description, goal, role, two bulleted instructions and the markdown
\* directive.
C30_Witness ==
    /\ isInit
    /\ Len(Messages) = 1
    /\ Messages[1].Role = "system"
    /\ Messages[1].Content =
          <<"Test agent", "\n\n",
            "<your_goal>\n", "Test goal", "\n</your_goal>\n\n",
            "<your_role>\n", "Test role", "\n</your_role>\n\n",
            "<instructions>", "\n- ", "Step 1", "\n- ", "Step 2", "\n</instructions>\n\n",
            "<additional_information>", "\n- ", "Use markdown to format your answers.",
            "\n</additional_information>\n\n">>


(***************************************************************************)
(* Properties of the derivation and of derived tools.                      *)
(***************************************************************************)
\* The tool Execute was called on, the decoded payload and the result.
Called == derived.ok /\ outcome.result.kind # "none"
Invoked(r) == r.kind \in {"ok", "failed"}

\* The positions of the required parameters the payload lacks, and of the
\* parameters the payload holds a value for that converts to their type.
AbsentRequired(tool, argMap) ==
    { i \in 1..Len(tool.paramNames) :
        /\ tool.paramNames[i] \notin DOMAIN argMap
        /\ Contains(tool.Parameters.required, tool.paramNames[i]) }
Converts(tool, argMap, i) ==
    tool.paramNames[i] \in DOMAIN argMap
       => convertJSONValueToGoType(argMap[tool.paramNames[i]], tool.paramTypes[i]).ok
First(S) == CHOOSE i \in S : \A j \in S : i <= j
MissingParameter(name) == <<"missing required parameter: ", name>>

\* The schema {a: integer required, b: string optional}.
RequiredIntOptionalString(tool) ==
    /\ tool.paramNames = <<"a", "b">>
    /\ tool.Parameters.properties["a"].type = "integer"
    /\ tool.Parameters.properties["b"].type = "string"
    /\ tool.Parameters.required = <<"a">>

RequiredLines(doc) ==
    { k \in 2..Len(doc) : doc[k].tag \in {"@param", "@params"} /\ doc[k].colon /\ ~doc[k].optional }

\* C22: the required list of a derived tool holds exactly the names of the
\* "@param"/"@params" lines of the doc comment that lack the [optional]
\* marker, in the order the lines appear: the j-th such line names the j-th
\* entry.  For Add(a, b int) documented with two such lines it is [a, b], and
\* both properties are typed "integer".
C22_RequiredFromDocLines ==
    (derived.done /\ derived.ok) =>
       LET req == derived.tool.Parameters.required
           lines == RequiredLines(method.doc)
       IN  /\ Len(req) = Cardinality(lines)
           /\ \A k \in lines :
                 req[Cardinality({ j \in lines : j <= k })] = method.doc[k].name
           /\ (method.names = <<"a", "b">> /\ method.types = <<Scalar("int"), Scalar("int")>>
                  /\ lines = {2, 3} /\ method.doc[2].name = "a" /\ method.doc[3].name = "b") =>
                 /\ req = <<"a", "b">>
                 /\ derived.tool.Parameters.properties["a"].type = "integer"
                 /\ derived.tool.Parameters.properties["b"].type = "integer"

\* A method declared with a before b and documented with the line of b
\* before the line of a, neither optional, was derived: required is [b, a].
C22_Witness ==
    /\ derived.done
    /\ derived.ok
    /\ derived.tool.paramNames = <<"a", "b">>
    /\ derived.tool.Parameters.required = <<"b", "a">>


\* The method passes the checks that precede the type mapping.
WellFormedMethod(meth) ==
    /\ meth.found
    /\ meth.ctx
    /\ meth.outs = 1 \/ (meth.outs = 2 /\ meth.outError)
    /\ meth.hasDoc
    /\ Len(meth.names) = Len(meth.types)

SignedKinds == {"int", "int8", "int16", "int32", "int64"}
UnsignedKinds == {"uint", "uint8", "uint16", "uint32", "uint64"}

\* The schema type of a kind when the kinds in integers count as integer
\* kinds, "" for the remaining kinds.
SchemaTypeOf(kind, integers) ==
    CASE kind \in integers -> "integer"
      [] kind \in {"float32", "float64"} -> "number"
      [] kind = "string" -> "string"
      [] kind = "bool" -> "boolean"
      [] kind = "slice" -> "array"
      [] kind = "map" -> "object"
      [] OTHER -> ""

\* The derivation of the method gave every parameter the schema type of its
\* kind, or failed with the unsupported-type error when a kind has none.
MapsKinds(integers) ==
    (derived.done /\ WellFormedMethod(method)) =>
       IF \A i \in 1..Len(method.types) : SchemaTypeOf(method.types[i].kind, integers) # ""
       THEN /\ derived.ok
            /\ \A i \in 1..Len(method.types) :
                  derived.tool.Parameters.properties[method.names[i]].type
                     = SchemaTypeOf(method.types[i].kind, integers)
       ELSE /\ ~derived.ok
            /\ Head(derived.err) = "unsupported parameter type: "

\* C23: derivation maps signed and unsigned integer kinds to "integer",
\* floating kinds to "number", text to "string", booleans to "boolean",
\* slices to "array" and maps to "object", and fails with the
\* unsupported-type error for exactly the remaining kinds.
C23_KindsMapped == MapsKinds(SignedKinds \cup UnsignedKinds)

\* C23, amended: derivation maps the signed integer kinds to "integer",
\* floating kinds to "number", text to "string", booleans to "boolean",
\* slices to "array" and maps to "object", and fails with the
\* unsupported-type error for exactly the remaining kinds, the unsigned
\* integer kinds among them.
C23_SignedKindsMapped == MapsKinds(SignedKinds)

\* A method with a uint parameter was handed to CreateToolFromMethod: the
\* derivation failed with the unsupported-type error.
C23_Witness ==
    /\ derived.done
    /\ WellFormedMethod(method)
    /\ \E i \in 1..Len(method.types) : method.types[i].kind = "uint"
    /\ ~derived.ok
    /\ derived.err = <<"unsupported parameter type: ", "uint">>


\* The positions of the parameters the payload lacks.
AbsentParams(tool, argMap) ==
    { i \in 1..Len(tool.paramNames) : tool.paramNames[i] \notin DOMAIN argMap }

\* C24: when a payload lacks optional parameters of a derived tool, and
\* nothing else stands in the way of the call (no required parameter is
\* missing and the values present convert), each of them is replaced by the
\* zero value of its declared type and the method is invoked, whatever
\* types derivation accepted for them.
C24_OptionalAbsentZero ==
    (Called /\ outcome.payload.valid) =>
       LET tool == derived.tool
           argMap == outcome.payload.argMap
           r == outcome.result
       IN  (/\ AbsentParams(tool, argMap) # {}
            /\ AbsentRequired(tool, argMap) = {}
            /\ \A i \in 1..Len(tool.paramNames) : Converts(tool, argMap, i)) =>
              /\ Invoked(r)
              /\ \A i \in AbsentParams(tool, argMap) :
                    r.args[i] = GoValue(tool.paramTypes[i], TRUE)


\* The methods of the toolkit whose derivation fails, and those that are
\* enabled and derive.
RejectedByDerivation ==
    { i \in 1..Len(toolkit.methods) : ~CreateToolFromMethod(toolkit.methods[i]).ok }
Provided ==
    { i \in 1..Len(toolkit.methods) :
        /\ toolkit.enable[i] \/ toolkit.EnableAll
        /\ i \notin RejectedByDerivation }

\* The tools of a list are the agent's own Tool and tools derived from
\* provided methods; no tool bears the name of a rejected method.
OnlyProvided(list) ==
    \A j \in 1..Len(list) :
       /\ \A i \in RejectedByDerivation : list[j].Name # toolkit.methods[i].name
       /\ \/ list[j] = CalculateTool
          \/ \E i \in Provided : list[j] = CreateToolFromMethod(toolkit.methods[i]).tool

\* C25: a method whose derivation fails never enters the registry: whatever
\* tools of the toolkit are enabled, it is absent from the toolkit's
\* Tools(), from every list GetAllTools and processTools return, from the
\* cache and from the list handed to the model, while every enabled method
\* that derives is in the toolkit's Tools().
C25_RejectedNeverRegistered ==
    LET kitTools == Tools[Len(Tools)].kit
    IN  /\ OnlyProvided(kitTools)
        /\ \A i \in Provided :
              \E j \in 1..Len(kitTools) : kitTools[j].Name = toolkit.methods[i].name
        /\ OnlyProvided(_tools)
        /\ OnlyProvided(reg.first)
        /\ OnlyProvided(reg.last)
        /\ OnlyProvided(reg.processed)
        /\ OnlyProvided(modelTools.tools)

\* An agent with a toolkit whose first method is enabled and rejected and
\* whose second derives has been initialised: the model was handed the
\* second method's tool and not the first's.
C25_Witness ==
    /\ Len(toolkit.methods) >= 2
    /\ toolkit.enable[1]
    /\ 1 \in RejectedByDerivation
    /\ 2 \in Provided
    /\ isInit
    /\ modelTools.set
    /\ \E j \in 1..Len(modelTools.tools) : modelTools.tools[j].Name = toolkit.methods[2].name
    /\ \A j \in 1..Len(modelTools.tools) : modelTools.tools[j].Name # toolkit.methods[1].name



\* The JSON kind a value must have for a parameter of this kind: the kind
\* the schema type of goTypeToJSONSchemaType stands for.
JSONKindOf(kind) ==
    CASE goTypeToJSONSchemaType(Scalar(kind)) \in {"integer", "number"} -> "number"
      [] goTypeToJSONSchemaType(Scalar(kind)) = "string" -> "string"
      [] goTypeToJSONSchemaType(Scalar(kind)) = "boolean" -> "bool"
      [] goTypeToJSONSchemaType(Scalar(kind)) = "array" -> "array"
      [] goTypeToJSONSchemaType(Scalar(kind)) = "object" -> "object"
      [] OTHER -> "none"

\* The value has the JSON type of the declared parameter type; the elements
\* of an array or object, when there are any, have that of its element type.
JSONMatches(val, t) ==
    /\ JSONKindOf(t.kind) # "none"
    /\ val.json = JSONKindOf(t.kind)
    /\ t.kind \in {"slice", "map"} => (val.elems = "none" \/ val.elems = JSONKindOf(t.elem))

\* The positions of the parameters the payload holds a value for.
PresentParams(tool, argMap) ==
    { i \in 1..Len(tool.paramNames) : tool.paramNames[i] \in DOMAIN argMap }

\* C31: the executor of a derived tool returns a failure without invoking
\* the method when the payload does not decode or holds, for some parameter,
\* a value whose JSON type is not that of the declared type; given values of
\* the right JSON type for all parameters it invokes the method, once, and
\* returns its encoded result, or the method's own failure when the method
\* returns one.
C31_ExecuteOutcomes ==
    Called =>
       LET tool == derived.tool
           argMap == outcome.payload.argMap
           r == outcome.result
       IN  /\ ~outcome.payload.valid =>
                 /\ ~Invoked(r)
                 /\ r.kind = "error"
                 /\ r.args = <<>>
           /\ (/\ outcome.payload.valid
               /\ \E i \in PresentParams(tool, argMap) :
                     ~JSONMatches(argMap[tool.paramNames[i]], tool.paramTypes[i])) =>
                 /\ ~Invoked(r)
                 /\ r.kind = "error"
                 /\ r.args = <<>>
           /\ (/\ outcome.payload.valid
               /\ PresentParams(tool, argMap) = 1..Len(tool.paramNames)
               /\ \A i \in PresentParams(tool, argMap) :
                     JSONMatches(argMap[tool.paramNames[i]], tool.paramTypes[i])) =>
                 /\ Invoked(r)
                 /\ Len(r.args) = Len(tool.paramNames)
                 /\ r.kind = "failed" => (tool.hasError /\ r.err = <<"method error">>)


\* C39: every parameter type derivation accepts is marshalled at invocation:
\* a payload value of the JSON type of a parameter's schema type is converted
\* by convertJSONValueToGoType to a value of the parameter's type, and when
\* every parameter has such a value the method is invoked with them.
C39_AcceptedTypesMarshal ==
    (Called /\ outcome.payload.valid) =>
       LET tool == derived.tool
           argMap == outcome.payload.argMap
           r == outcome.result
           matching == { i \in PresentParams(tool, argMap) :
                           JSONMatches(argMap[tool.paramNames[i]], tool.paramTypes[i]) }
       IN  /\ \A i \in matching :
                 /\ convertJSONValueToGoType(argMap[tool.paramNames[i]], tool.paramTypes[i]).ok
                 /\ convertJSONValueToGoType(argMap[tool.paramNames[i]],
                                             tool.paramTypes[i]).value.type = tool.paramTypes[i]
           /\ matching = 1..Len(tool.paramNames) =>
                 /\ r.kind \in {"ok", "failed"}
                 /\ \A i \in matching : r.args[i].type = tool.paramTypes[i]



\* C40: in every derived tool the schema agrees with the declared
\* parameters: each name of the required list is a key of properties and a
\* declared parameter, whatever the doc comment names, and the executor
\* refuses, without invoking the method, every payload that lacks a name of
\* the required list.
C40_SchemaMatchesDeclaration ==
    (derived.done /\ derived.ok) =>
       LET tool == derived.tool
           req == tool.Parameters.required
       IN  /\ \A k \in 1..Len(req) :
                 /\ req[k] \in DOMAIN tool.Parameters.properties
                 /\ Contains(tool.paramNames, req[k])
           /\ DOMAIN tool.Parameters.properties
                 = { tool.paramNames[i] : i \in 1..Len(tool.paramNames) }
           /\ (Called /\ outcome.payload.valid
                  /\ \E k \in 1..Len(req) : req[k] \notin DOMAIN outcome.payload.argMap) =>
                 /\ ~Invoked(outcome.result)
                 /\ outcome.result.kind = "error"



(***************************************************************************)
(* Further properties of RunStream and Run.                                *)
(***************************************************************************)
\* The ids of the ToolCalls answered by a tool message of the current run.
AnsweredIds ==
    { Messages[j].ToolCallID : j \in { k \in ToolResults : k > Len(runHist) } }

\* C34: in a RunStream run, once the producer is back at the model call or
\* has returned, every ToolCall the caller received in a tool_call event has
\* been dispatched and is answered by a tool message in history, however
\* many tool_call events the model stream delivered in one turn.
C34_ForwardedCallsAnswered ==
    (StreamRun /\ pc \in {"stream_model", "stream_close", "idle"}) =>
       \A p \in 1..Len(ch) :
          ch[p].Event = "tool_call" =>
             \A i \in 1..Len(ch[p].ToolCalls) :
                /\ ch[p].ToolCalls[i].ID \in AnsweredIds
                /\ ch[p].ToolCalls[i].Name \in {"calculate", "add"} =>
                      Contains(executed, ch[p].ToolCalls[i].ID)



\* The positions of history at which a user message follows a user message.
AdjacentUsers ==
    { k \in 1..(Len(Messages) - 1) :
        Messages[k].Role = "user" /\ Messages[k + 1].Role = "user" }

\* The run that last returned failed: Run returned an error, or the channel
\* of RunStream was closed after the error event.
LastRunFailed ==
    \/ result.kind = "err"
    \/ result.kind = "closed" /\ ch # <<>> /\ Last(ch).Event = "error"

\* C38: after any sequence of runs on one agent, successful or failed,
\* history never holds two adjacent user messages.
C38_NoAdjacentUsers == AdjacentUsers = {}

\* C38, amended: a run appends its user message right after a user message
\* only when the run before it failed: a failed run leaves its user message
\* as the last message of history, a run that succeeds leaves an assistant
\* message there, and within one run the user message is followed by that
\* run's assistant message before anything else.
C38_AdjacentUsersOnlyAfterFailure ==
    /\ [][ (runs' = runs + 1 /\ Messages # <<>> /\ Last(Messages).Role = "user") =>
             /\ LastRunFailed
             /\ Len(Messages') - 1 \in { k \in 1..(Len(Messages') - 1) :
                                           Messages'[k].Role = "user"
                                           /\ Messages'[k + 1].Role = "user" } ]_vars
    /\ []((pc = "idle" /\ runs > 0 /\ ~LastRunFailed) =>
             /\ Last(Messages).Role = "assistant"
             /\ Last(Messages).ToolCalls = <<>>)
    /\ [](\A k \in AdjacentUsers : k + 1 <= Len(runHist))
    /\ [](runs > 0 =>
             /\ Messages[Len(runHist)].Role = "user"
             /\ Len(Messages) > Len(runHist) => Messages[Len(runHist) + 1].Role = "assistant")

\* Run failed on its model call and Run was called again: the user messages
\* of the two runs are adjacent in history.
C38_Witness ==
    /\ runs = 2
    /\ pc = "run_model"
    /\ Len(Messages) >= 2
    /\ Len(Messages) - 1 \in AdjacentUsers



\* C36: when ChatCompletionStream returns an error, on the first or on a
\* later turn, the producer forwards one error event carrying the error text
\* and nothing after it: the run forwards no end event, history stays the
\* one handed to the failing call (no assistant message for that turn, the
\* earlier messages in place), and the producer returns, closing the channel,
\* once the caller has received the event.
C36_StreamFailureForwardsError ==
    /\ [][ (pc = "stream_model" /\ pc' = "stream_send") =>
             /\ modelCalls' = modelCalls + 1
             /\ Len(pending') = 1
             /\ pending'[1].Event = "error"
             /\ pending'[1].Data \in ModelErrors
             /\ resume' = "stream_close"
             /\ ch' = ch
             /\ Messages' = Messages ]_vars
    /\ [](StreamRun =>
            LET errors == { p \in 1..Len(Forwarded) : Forwarded[p].Event = "error" }
            IN  errors # {} =>
                   /\ errors = {Len(Forwarded)}
                   /\ EventsOf(Forwarded, "end") = <<>>
                   /\ Messages = callHist
                   /\ IsPrefix(runHist, Messages)
                   /\ Last(Messages).Role \in {"user", "tool"}
                   /\ pc \in {"stream_send", "stream_close", "idle"}
                   /\ pc = "idle" <=> chClosed
                   /\ pc = "stream_send" <=> pending # <<>>)

\* The model stream of the second turn could not be opened: the caller has
\* received the tool_call event of the first turn and then the error event,
\* the channel is closed, and history ends with the tool message.
C36_Witness ==
    /\ chClosed
    /\ Len(ch) >= 2
    /\ Last(ch) = ModelResponse("error", <<"context canceled">>, <<>>)
    /\ EventsOf(ch, "tool_call") # <<>>
    /\ Last(Messages).Role = "tool"
    /\ Messages = callHist



\* C35: the channel of RunStream is closed by the returning producer and by
\* nothing else, once per run: the closing step starts from the position
\* after the last send, with nothing left to send, and changes neither
\* history nor the events received; a closed channel has carried the end
\* event after the final assistant message was appended, or the error event
\* of a failed model call; and from the close until the caller starts
\* another run, history, the events received and the closed channel stay as
\* they are.
C35_ClosedMeansHistoryComplete ==
    /\ [][ (chClosed' /\ ~chClosed) =>
             /\ pc = "stream_close"
             /\ pc' = "idle"
             /\ pending = <<>>
             /\ Messages' = Messages
             /\ ch' = ch ]_vars
    /\ [][ chClosed =>
             \/ runs' = runs + 1
             \/ /\ chClosed'
                /\ Messages' = Messages
                /\ ch' = ch
                /\ pc' = "idle" ]_vars
    /\ [](chClosed =>
            /\ pc = "idle"
            /\ result.kind = "closed"
            /\ pending = <<>>
            /\ ch # <<>>
            /\ Last(ch).Event = "end" =>
                  /\ Last(Messages).Role = "assistant"
                  /\ Last(Messages).ToolCalls = <<>>
                  /\ Last(Messages).Content = fullResponse
            /\ Last(ch).Event # "end" =>
                  /\ Last(ch).Event = "error"
                  /\ Messages = callHist)
    /\ []((StreamRun /\ pc = "idle") => chClosed)

\* A run with a tool turn has returned on the end path: the channel is
\* closed, history holds the tool message and ends with the final assistant
\* message, and the producer is idle.
C35_Witness ==
    /\ chClosed
    /\ pc = "idle"
    /\ Last(ch).Event = "end"
    /\ Last(Messages).Role = "assistant"
    /\ \E j \in ToolResults : j > Len(runHist)



(***************************************************************************)
(* Properties of RunStream served by a streaming adapter.                  *)
(***************************************************************************)
\* The deltas the provider streamed in the k-th turn of the current run, and
\* the assistant messages and the tool messages the run has appended.
StreamOfTurn(k) == provider.turns[modelCalls - Len(opened) + k]
RunMessages(role) ==
    SelectSeq(SubSeq(Messages, Len(runHist) + 1, Len(Messages)), LAMBDA msg : msg.Role = role)

\* The text the provider streamed in the turns the run has settled.
SettledText == Concat([k \in 1..Len(opened) |-> AdapterContent(StreamOfTurn(k))])

\* C32: in a RunStream run served by the OpenAI adapter, once a turn is
\* settled and its events are received, the chunk events the caller has
\* received hold the text fragments the provider streamed, each once and in
\* order, and the assistant message of every turn holds the fragments of its
\* turn, each once, also when the turn ends in a tool call.
C32_FragmentsOnce ==
    (/\ provider.adapter = "openai"
     /\ StreamRun
     /\ pending = <<>>
     /\ pc \in {"stream_dispatch", "stream_model", "stream_close", "idle"}) =>
       /\ ChunkText(ch) = SettledText
       /\ Len(RunMessages("assistant")) = Len(opened)
       /\ \A k \in 1..Len(opened) :
             RunMessages("assistant")[k].Content = AdapterContent(StreamOfTurn(k))


\* The ToolCalls of a provider stream in ascending order of their index.
RECURSIVE Ascending(_)
Ascending(calls) ==
    IF DOMAIN calls = {} THEN <<>>
    ELSE LET top == CHOOSE i \in DOMAIN calls : \A j \in DOMAIN calls : j <= i
         IN  Append(Ascending([i \in DOMAIN calls \ {top} |-> calls[i]]), calls[top])
ProviderCalls(k) ==
    Ascending(AdapterToolCalls(provider.adapter, StreamOfTurn(k), NoToolCalls))

\* C33: with either adapter, the tool_call event of a turn lists the
\* ToolCalls in the order of their provider index, so that RunStream
\* forwards them, stores them in the assistant message, executes them and
\* records their results in that order.
C33_ProviderOrderKept ==
    StreamRun =>
       /\ \A k \in 1..Len(opened) :
             LET events == SubSeq(respLog, opened[k] + 1,
                                  IF k < Len(opened) THEN opened[k + 1] ELSE Len(respLog))
             IN  \A p \in 1..Len(events) :
                    events[p].Event = "tool_call" => events[p].ToolCalls = ProviderCalls(k)
       /\ \A p \in 1..Len(Forwarded) :
             Forwarded[p].Event = "tool_call" =>
                \E k \in 1..Len(opened) : Forwarded[p].ToolCalls = ProviderCalls(k)
       /\ \A k \in 1..Len(RunMessages("assistant")) :
             RunMessages("assistant")[k].ToolCalls = ProviderCalls(k)
       /\ IsPrefix([j \in 1..Len(RunMessages("tool")) |-> RunMessages("tool")[j].ToolCallID],
                   Concat([k \in 1..Len(opened) |->
                              [i \in 1..Len(ProviderCalls(k)) |-> ProviderCalls(k)[i].ID]]))



(***************************************************************************)
(* Termination of the turn loops.                                          *)
(***************************************************************************)
InRun == pc \in {"run_model", "run_dispatch"}
InStream == pc \in {"stream_model", "stream_recv", "stream_send", "stream_dispatch",
                    "stream_close"}

\* C37: Run returns when, and only when, the model answers a call with a
\* complete event, an unexpected event or a failure: it returns in the step
\* of that answer, every answer of the run before it was a tool_call event,
\* and each answer took one model call, so a run whose k-th answer is its
\* first complete event returns after k model calls.  A tool_call answer
\* never ends the run: the loop walks its ToolCalls, each appending a
\* message, and calls the model again, without a bound of its own.  Under a
\* model that answers and eventually answers without ToolCalls, Run returns;
\* and with a caller that keeps receiving, the producer of RunStream returns
\* and the channel is closed.
C37_LoopsTerminateWithModel ==
    /\ [][ (InRun /\ pc' = "idle") =>
             /\ pc = "run_model"
             /\ modelCalls' = modelCalls + 1
             /\ result'.kind \in {"ok", "err"}
             /\ result'.kind = "ok" =>
                   /\ response'.Event = "complete"
                   /\ Len(respLog') = Len(respLog) + 1
                   /\ \A i \in 1..Len(respLog) : respLog[i].Event = "tool_call"
             /\ \A i \in 1..Len(respLog) : respLog[i].Event = "tool_call" ]_vars
    /\ [][ (InRun /\ InRun') =>
             IF pc = "run_model"
             THEN /\ modelCalls' = modelCalls + 1
                  /\ respLog' = Append(respLog, response')
                  /\ response'.Event = "tool_call"
                  /\ Len(Messages') = Len(Messages) + 1
                  /\ pc' = "run_dispatch" <=> response'.ToolCalls # <<>>
             ELSE /\ modelCalls' = modelCalls
                  /\ respLog' = respLog
                  /\ Len(Messages') = Len(Messages) + 1
                  /\ pc' = "run_model" <=> idx = Len(response.ToolCalls) ]_vars
    /\ [][ (InStream /\ pc' = "idle") => (pc = "stream_close" /\ chClosed') ]_vars
    /\ (InRun ~> (pc = "idle" /\ result.kind \in {"ok", "err"}))
    /\ (InStream ~> (pc = "idle" /\ chClosed))

\* The model answered the first call of a run with a tool_call event and the
\* second with a complete event: Run has returned after two model calls.
C37_Witness ==
    /\ pc = "idle"
    /\ result.kind = "ok"
    /\ runs = 1
    /\ modelCalls = 2
    /\ Len(respLog) = 2
    /\ respLog[1].Event = "tool_call"
    /\ respLog[2].Event = "complete"

====
